---- MODULE Spec2Model ----
(***************************************************************************)
(* Helios CLI: the agent loop of src/chat.ts (runAgentStreaming) with its  *)
(* supervision layer: LoopDetector, SecurityScanner, the permission gate   *)
(* (checkPermission) and the AuditLogger.                                  *)
(*                                                                         *)
(* Texts are TLA+ strings.  A regular expression of the source is modelled *)
(* by the table of the sample texts it matches; JSON.parse by the table of *)
(* the sample payloads.  An "absent" property of an argument object is the *)
(* empty string, which is falsy in the source's `a || b` tests as well.    *)
(***************************************************************************)
EXTENDS Integers, Sequences, FiniteSets, TLC

\* ------------------------------------------------------------------ bounds
\* config.get('MAX_ITERATIONS') || 30 : the cap used by the model
maxIterations == 2
\* steps of the agent loop followed in one session
MaxSteps == 10
\* tool calls of one provider response
MaxBatch == 2
\* LoopDetector.check calls of one run of the detector-only specification
MaxChecks == 5
\* checkPermission calls of one run of the gate-only specification
MaxGateCalls == 4
\* deltas read from one provider stream
MaxDeltas == 4
\* structured tool calls of one response of the fallback-only specification
MaxStructured == 2
\* log() calls followed in the audit-logger specification
MaxLogs == 3
\* scanCommand() calls followed in the scanner specification
MaxScans == 2
\* checks followed after the history of the loop detector has reached maxHistory
MaxLate == 3
MaxAttempts == 3
MaxReads == 2
MaxQwenChunks == 3
MaxMore == 3

\* ------------------------------------------------- program constants
\* LoopDetector.maxHistory
maxHistory == 20
\* config.get('MAX_RETRIES') || 3
maxRetries == 3

\* ------------------------------------------------- argument payloads
NoArgs == [path |-> "", content |-> "", search |-> "", replace |-> "", command |-> "", url |-> ""]

PayReadX == "{\"path\":\"x.txt\"}"
PayWriteHi == "{\"path\":\"a.txt\",\"content\":\"hi\"}"
PayWriteEval == "{\"path\":\"a.txt\",\"content\":\"eval(userInput)\"}"
PayRmRf == "{\"command\":\"rm -rf /\"}"
PayBroken == "{\"path\":\"a.txt\",\"content\":"
PayUrl == "{\"url\":\"http://x\"}"
PayEditEval == "{\"path\":\"a.txt\",\"search\":\"x\",\"replace\":\"eval(userInput)\"}"
PayEditBoth ==
    "{\"path\":\"a.txt\",\"search\":\"x\",\"replace\":\"eval(userInput)\",\"content\":\"hi\"}"
PayFlatWrite == "{\"action\":\"write_file\",\"path\":\"a.txt\",\"content\":\"hi\"}"
PayTargetFile == "{\"action\":\"write_to_file\",\"TargetFile\":\"a.txt\",\"CodeContent\":\"hi\"}"
PayTargetFileMapped ==
    "{\"action\":\"write_to_file\",\"TargetFile\":\"a.txt\",\"CodeContent\":\"hi\",\"path\":\"a.txt\",\"content\":\"hi\"}"

\* JSON.parse on the sample payloads: ok = FALSE is the SyntaxError it throws
JSONparse(text) ==
    CASE text = PayReadX -> [ok |-> TRUE, value |-> [NoArgs EXCEPT !.path = "x.txt"]]
      [] text = PayWriteHi -> [ok |-> TRUE, value |-> [NoArgs EXCEPT !.path = "a.txt", !.content = "hi"]]
      [] text = PayWriteEval -> [ok |-> TRUE, value |-> [NoArgs EXCEPT !.path = "a.txt", !.content = "eval(userInput)"]]
      [] text = PayRmRf -> [ok |-> TRUE, value |-> [NoArgs EXCEPT !.command = "rm -rf /"]]
      [] text = PayUrl -> [ok |-> TRUE, value |-> [NoArgs EXCEPT !.url = "http://x"]]
      [] text = PayEditEval ->
            [ok |-> TRUE, value |-> [NoArgs EXCEPT !.path = "a.txt", !.search = "x",
                                                   !.replace = "eval(userInput)"]]
      [] text = PayEditBoth ->
            [ok |-> TRUE, value |-> [NoArgs EXCEPT !.path = "a.txt", !.search = "x",
                                                   !.replace = "eval(userInput)", !.content = "hi"]]
      [] text \in {PayFlatWrite, PayTargetFileMapped} ->
            [ok |-> TRUE, value |-> [NoArgs EXCEPT !.path = "a.txt", !.content = "hi"]]
      [] text = "{}" -> [ok |-> TRUE, value |-> NoArgs]
      [] OTHER -> [ok |-> FALSE, value |-> NoArgs]

\* JSON.parse(toolCall.arguments || '{}')
parseArguments(arguments) == JSONparse(IF arguments = "" THEN "{}" ELSE arguments)

\* path.resolve(displayPath), '' when there is no display path
absolutePath(args) == IF args.path = "" THEN "" ELSE "/cwd/" \o args.path

\* ------------------------------------------------- SecurityScanner
DANGEROUS_PATTERNS == <<
    [severity |-> "critical", message |-> "eval() can execute arbitrary code"],
    [severity |-> "critical", message |-> "Command injection vulnerability"],
    [severity |-> "critical", message |-> "XSS vulnerability via innerHTML"],
    [severity |-> "high", message |-> "Potential SQL injection"],
    [severity |-> "high", message |-> "document.write() is dangerous and deprecated"],
    [severity |-> "high", message |-> "Dynamic function creation can be dangerous"],
    [severity |-> "low", message |-> "Console statements in production code"],
    [severity |-> "high", message |-> "Hardcoded password detected"],
    [severity |-> "high", message |-> "Hardcoded API key detected"],
    [severity |-> "medium", message |-> "React dangerouslySetInnerHTML usage"],
    [severity |-> "low", message |-> "Unresolved TODO/FIXME comment"] >>

\* code.match(pattern.regex) on the sample texts: <<i, text>> when pattern i matches
PatternMatches ==
    { <<1, "eval(userInput)">>,
      <<7, "console.log(x) // TODO">>, <<11, "console.log(x) // TODO">>,
      <<7, "console.log(password='abc')">>, <<8, "console.log(password='abc')">>,
      <<5, "document.write(x)">> }

\* the sample texts of the table above
CodeSamples == {"hi", "eval(userInput)", "console.log(x) // TODO",
                "console.log(password='abc')", "document.write(x)"}

severityOrder(s) ==
    CASE s = "critical" -> 0 [] s = "high" -> 1 [] s = "medium" -> 2 [] OTHER -> 3

RECURSIVE matchedIssues(_, _)
matchedIssues(code, i) ==
    IF i > Len(DANGEROUS_PATTERNS) THEN <<>>
    ELSE (IF <<i, code>> \in PatternMatches THEN <<DANGEROUS_PATTERNS[i]>> ELSE <<>>)
         \o matchedIssues(code, i + 1)

bySeverity(issues, n) == SelectSeq(issues, LAMBDA i : severityOrder(i.severity) = n)

\* issues.sort(...) is stable: the issues of one severity keep the table order
sortIssues(issues) ==
    bySeverity(issues, 0) \o bySeverity(issues, 1) \o bySeverity(issues, 2) \o bySeverity(issues, 3)

scan(code) ==
    LET issues == sortIssues(matchedIssues(code, 1))
    IN [approved |-> \A k \in 1..Len(issues) : issues[k].severity \notin {"critical", "high"},
        issues |-> issues]

dangerousCommands == <<
    "Dangerous recursive delete on root",
    "Recursive delete with wildcard",
    "Fork bomb detected",
    "Filesystem format command",
    "Direct disk write",
    "Writing to disk device",
    "Overly permissive chmod" >>

\* dc.regex.test(command) on the sample commands
CommandMatches ==
    { <<1, "rm -rf /">>, <<2, "rm -rf *">>, <<4, "mkfs.ext4 /dev/sda1">>,
      <<5, "dd if=/dev/zero of=/dev/sda">>, <<7, "chmod -R 777 /">>,
      <<1, "RM -RF /tmp/build">>, <<3, ":(){ :|:& };:">>, <<6, "echo x > /dev/sda">>,
      <<1, "rm -rf / && mkfs.ext4 /dev/sda1">>, <<4, "rm -rf / && mkfs.ext4 /dev/sda1">> }

\* the sample commands of the table above
CommandSamples == {"ls", "rm -rf /", "rm -rf *", "mkfs.ext4 /dev/sda1",
                   "dd if=/dev/zero of=/dev/sda", "chmod -R 777 /",
                   "RM -RF /tmp/build", "rm -fr /", ":(){ :|:& };:", "echo x > /dev/sda",
                   "rm -rf / && mkfs.ext4 /dev/sda1"}

RECURSIVE matchedCommands(_, _)
matchedCommands(command, i) ==
    IF i > Len(dangerousCommands) THEN <<>>
    ELSE (IF <<i, command>> \in CommandMatches
          THEN <<[severity |-> "critical", message |-> dangerousCommands[i]]>> ELSE <<>>)
         \o matchedCommands(command, i + 1)

\* mutant: a command with a single issue is approved
scanCommandLenient(command) ==
    LET issues == matchedCommands(command, 1)
    IN [approved |-> Len(issues) <= 1, issues |-> issues]

scanCommand(command) ==
    LET issues == matchedCommands(command, 1)
    IN [approved |-> Len(issues) = 0, issues |-> issues]

\* ------------------------------------------------- LoopDetector
\* md5 of JSON.stringify({action, args}), cut to 8 hex digits: one value per
\* (action, args) pair of the samples
hashStep(action, args) == <<action, args>>

detectOscillation(h) ==
    IF Len(h) < 4 THEN FALSE
    ELSE LET n == Len(h)
         IN /\ h[n - 3].action = h[n - 1].action
            /\ h[n - 2].action = h[n].action
            /\ h[n - 3].action # h[n - 2].action

repeatsAfter(h, repeats, hash) ==
    IF Len(h) > 0 /\ h[Len(h)].hash = hash THEN repeats + 1 ELSE 0

\* mutant: the entry just pushed is dropped when the buffer is full
historyAfterDropNewest(h, hash, action) ==
    LET pushed == Append(h, [hash |-> hash, action |-> action])
    IN IF Len(pushed) > maxHistory THEN SubSeq(pushed, 1, maxHistory) ELSE pushed

\* this.history.push(...), then shift() when the length exceeds maxHistory
historyAfter(h, hash, action) ==
    LET pushed == Append(h, [hash |-> hash, action |-> action])
    IN IF Len(pushed) > maxHistory THEN Tail(pushed) ELSE pushed

\* mutant: the same-action threshold counts the earlier entries only
sameActionCountBefore(nh, action) == Len(SelectSeq(nh, LAMBDA e : e.action = action)) - 1

\* this.history.filter(h => h.action === action).length, after the push
sameActionCount(nh, action) == Len(SelectSeq(nh, LAMBDA e : e.action = action))

\* mutant: the threshold is one repeat late
highRiskLate(repeats) == repeats >= 3

\* if (this.consecutiveRepeats >= 2)
highRisk(repeats) == repeats >= 2

\* LoopDetector.check: the detector's next state and the value returned
check(h, repeats, action, args) ==
    LET hash == hashStep(action, args)
        r == repeatsAfter(h, repeats, hash)
        nh == historyAfter(h, hash, action)
    IN [history |-> nh,
        consecutiveRepeats |-> r,
        isLoop |-> highRisk(r) \/ sameActionCount(nh, action) >= 5 \/ detectOscillation(nh),
        risk |-> IF highRisk(r) THEN "high"
                 ELSE IF sameActionCount(nh, action) >= 5 \/ detectOscillation(nh) THEN "medium"
                 ELSE "low"]

\* mutant: reset() zeroes the counter and keeps the buffer
resetKeepsHistory(detector) == [detector EXCEPT !.consecutiveRepeats = 0]

\* LoopDetector.reset
reset(detector) == [history |-> <<>>, consecutiveRepeats |-> 0]

\* ------------------------------------------------- permissions
DANGEROUS_TOOLS ==
    {"write_file", "edit_file", "delete_file", "rename_file", "create_directory",
     "run_command", "git_commit", "git_reset", "git_rebase", "docker_run",
     "vercel_deploy", "railway_deploy", "fly_deploy", "install_package",
     "uninstall_package", "prisma_migrate"}

\* SAFE_PATTERNS.some(pattern => pattern.test(name)) on the tool names of the model:
\* read_file, write_file, edit_file, delete_file, run_command, browser_screenshot, git_status
isSafeTool(name) == name \in {"read_file", "git_status"}

isDangerousTool(name) == name \in DANGEROUS_TOOLS /\ ~isSafeTool(name)

\* `${name}:${JSON.stringify(args)}` of the args object the agent loop passes
actionKey(name, args) == <<name, args, absolutePath(args)>>

\* mutant: the safe-pattern test of isDangerousTool is not negated
approvedWithoutPromptSafeOnly(name, args, state) ==
    \/ isSafeTool(name)
    \/ state.autoApprove
    \/ actionKey(name, args) \in state.approvedThisSession
    \/ ~(name \in DANGEROUS_TOOLS /\ isSafeTool(name))

\* mutant: the session cache is not consulted
approvedWithoutPromptNoCache(name, args, state) ==
    \/ isSafeTool(name)
    \/ state.autoApprove
    \/ ~isDangerousTool(name)

\* mutant: the auto-approve flag is not consulted
approvedWithoutPromptNoAuto(name, args, state) ==
    \/ isSafeTool(name)
    \/ actionKey(name, args) \in state.approvedThisSession
    \/ ~isDangerousTool(name)

\* checkPermission up to its prompt: TRUE when it returns approved without asking
approvedWithoutPrompt(name, args, state) ==
    \/ isSafeTool(name)
    \/ state.autoApprove
    \/ actionKey(name, args) \in state.approvedThisSession
    \/ ~isDangerousTool(name)

createPermissionState == [autoApprove |-> FALSE, approvedThisSession |-> {}]

\* mutant: toggling auto-approve starts the approvals afresh
toggleAutoApproveForgets(state) == [autoApprove |-> ~state.autoApprove, approvedThisSession |-> {}]

toggleAutoApprove(state) == [state EXCEPT !.autoApprove = ~state.autoApprove]

\* mutant: every approval is remembered, also one given without a prompt
stateAfterAnyApproval(state, key, prompted, approved) ==
    IF approved THEN [state EXCEPT !.approvedThisSession = @ \cup {key}] ELSE state

\* the state checkPermission leaves behind: `state.approvedThisSession.add(actionKey)`
\* comes after the prompt only, the earlier returns touch nothing
stateAfterCheck(state, key, prompted, approved) ==
    IF prompted /\ approved THEN [state EXCEPT !.approvedThisSession = @ \cup {key}] ELSE state


\* ------------------------------------------------- the MCP client
\* name.includes('__'), on the tool names of the model
isMCPTool(name) == name \in {"fs__echo", "fs__db__get"}

\* fullName.split('__'): the server is the part before the first separator, the
\* tool is the rest joined again
splitFullName(fullName) ==
    CASE fullName = "fs__echo" -> [serverName |-> "fs", toolName |-> "echo"]
      [] fullName = "fs__db__get" -> [serverName |-> "fs", toolName |-> "db__get"]
      [] OTHER -> [serverName |-> fullName, toolName |-> ""]

\* the servers connected by connectAll() at the start of the session
connections == {"fs"}

\* what the server's tool answers: the content items of the result
serverContent(toolName, args) ==
    CASE toolName = "echo" -> <<[type |-> "text", text |-> args.path]>>
      [] toolName = "db__get" -> <<[type |-> "text", text |-> "row"], [type |-> "image", text |-> ""]>>
      [] OTHER -> <<>>

\* the loop over result.content: text items and placeholders, one per line
RECURSIVE contentOutput(_, _)
contentOutput(content, i) ==
    IF i > Len(content) THEN ""
    ELSE (IF content[i].type = "text" THEN content[i].text \o "\n"
          ELSE "[" \o content[i].type \o " content]\n") \o contentOutput(content, i + 1)

\* MCPClient.callTool(fullName, args): the server asked, the tool asked for, and
\* the text returned
callTool(fullName, args) ==
    LET parts == splitFullName(fullName)
        output == contentOutput(serverContent(parts.toolName, args), 1)
    IN [serverName |-> parts.serverName,
        toolName |-> parts.toolName,
        threw |-> parts.serverName \notin connections,
        output |-> IF output # "" THEN output ELSE "{}"]

\* ------------------------------------------------- the agent loop (chat.ts)
VARIABLES
    messages,            \* state.messages
    permissions,         \* state.permissions
    streaming,           \* state.streaming
    history,             \* loopDetector.history
    consecutiveRepeats,  \* loopDetector.consecutiveRepeats
    auditLog,            \* the lines of ~/.helios/audit.jsonl
    pc,                  \* where runAgentStreaming stands: idle, loop, call, prompt, deps, exec
    iterations,          \* runAgentStreaming's iterations
    pendingToolCalls,    \* the batch of the current iteration
    idx,                 \* index of the current call of the batch (the for-of loop)
    warned,              \* the 'Max iterations reached.' warning was printed in this turn
    turnEnd,             \* how the last turn ended: none, final, cap, error (chunk), provider_exception, exception
    providerCalls,       \* provider calls made in this turn
    executed,            \* the executeTool invocations of the session, in order
    trail,               \* the pipeline steps taken for the current call
    gate,                \* what the permission gate saw and was answered for the current call
    issued,              \* tool calls issued by the provider in this session
    lastCheck,           \* the value returned by the latest LoopDetector.check
    ldLast,              \* the (action, args) of the latest check, <<>> after a reset
    ldRun,               \* length of the run of identical (action, args) ending at the latest check
    sinceReset,          \* check() calls made since the latest reset() call
    ldCount,             \* checks made in the detector-only specification
    pool,                \* the tool calls the provider of this session answers with
    steps                \* steps of the agent loop taken in this session

\* the permission gate alone
VARIABLES
    pgLog,               \* the checkPermission calls that returned: key, prompted, approved
    pgWaiting            \* the call whose confirm() prompt is open, <<>> when none

\* the stream() adapters alone
VARIABLES
    adapter,             \* the provider adapter: none, openrouter, openai
    deltas,              \* the deltas read from the response body so far
    currentToolCall,     \* stream()'s currentToolCall, NoCall for null
    chunks,              \* the StreamChunks yielded so far
    streamEnd            \* how the generator finished: none, sentinel, eof, error

\* one provider call of the agent loop: withRetry(chat) or stream
VARIABLES
    provider,            \* the adapter getProvider returned: none, openrouter, openai, claude
    mode,                \* chat (inside withRetry) or stream
    useTools,            \* the next request carries the tools
    attempt,             \* withRetry's attempt
    requests,            \* the HTTP requests made: tools carried, response received
    outcome              \* what the agent loop received: none, response, error

\* the fallback parsers alone
VARIABLES
    structured,          \* the structured tool calls of the response
    fullContent,         \* the text of the response
    fbBatch,             \* pendingToolCalls after the fallback stages
    fbPc                 \* idle, received, parsed

\* the audit logger alone
VARIABLES
    auditFile,           \* the content of ~/.helios/audit.jsonl, "" while it does not exist
    sessionStats,        \* AuditLogger.sessionStats
    logCalls             \* log() calls made in the audit-logger specification

\* the security scanner alone
VARIABLES
    scanLog              \* the scanCommand() calls made: command and value returned

\* withRetry alone
VARIABLES
    retryOptions,        \* the options object withRetry was called with
    retryPc,             \* idle, invoke (awaiting fn), backoff (awaiting the timer), returned, thrown
    retryAttempt,        \* the loop variable `attempt`
    fnCalls,             \* how each invocation of fn settled, in order
    sleeps,              \* the delays of the timers awaited, in order
    lastError,           \* withRetry's lastError, NoError for null
    retryResult          \* the value returned or the error thrown

\* one network call of an adapter and its deadline
VARIABLES
    netMode,             \* none, chat, stream
    netPhase,            \* idle, fetch (awaiting the response), body (reading it), finished
    timeoutId,           \* the timer of the deadline: unset, armed, cleared, fired
    expiredIn,           \* the phase the call was in when the deadline passed, never before that
    responseOk,          \* response.ok
    bodyReads,           \* reader.read() calls that returned a part of the body
    netResult            \* what the adapter returned, threw or yielded last, none before

gateVars == <<pgLog, pgWaiting>>
streamVars == <<adapter, deltas, currentToolCall, chunks, streamEnd>>
providerVars == <<provider, mode, useTools, attempt, requests, outcome>>
fallbackVars == <<structured, fullContent, fbBatch, fbPc>>
auditVars == <<auditFile, sessionStats, logCalls>>
scanVars == <<scanLog>>
retryVars == <<retryOptions, retryPc, retryAttempt, fnCalls, sleeps, lastError, retryResult>>
deadlineVars == <<netMode, netPhase, timeoutId, expiredIn, responseOk, bodyReads, netResult>>
lateVars == <<retryVars, deadlineVars>>
unitVars == <<auditVars, scanVars, lateVars>>
auxVars == <<gateVars, streamVars, providerVars, fallbackVars, unitVars>>

vars == <<messages, permissions, streaming, history, consecutiveRepeats, auditLog, pc,
          iterations, pendingToolCalls, idx, warned, turnEnd, providerCalls, executed,
          trail, gate, issued, lastCheck, ldLast, ldRun, sinceReset, ldCount, pool, steps,
          auxVars>>

loopVars == <<history, consecutiveRepeats, lastCheck, ldLast, ldRun, sinceReset>>
agentVars == <<messages, permissions, streaming, auditLog, pc, iterations, pendingToolCalls,
               idx, warned, turnEnd, providerCalls, executed, trail, gate, issued, pool>>
sessionVars == <<messages, streaming, auditLog, pc, iterations, pendingToolCalls,
                 idx, warned, turnEnd, providerCalls, executed, trail, gate, issued, pool>>

SYSTEM_PROMPT == "You are Helios"

systemMessage == [role |-> "system", content |-> SYSTEM_PROMPT, tool_calls |-> <<>>, tool_call_id |-> 0]
userMessage == [role |-> "user", content |-> "user request", tool_calls |-> <<>>, tool_call_id |-> 0]
assistantMessage(content, calls) ==
    [role |-> "assistant", content |-> content, tool_calls |-> calls, tool_call_id |-> 0]
\* mutant: the tool-result is not tagged with the id of its call
toolMessageUntagged(id, content) ==
    [role |-> "tool", content |-> content, tool_calls |-> <<>>, tool_call_id |-> 0]

toolMessage(id, content) ==
    [role |-> "tool", content |-> content, tool_calls |-> <<>>, tool_call_id |-> id]

NoGate == [auto |-> FALSE, cached |-> FALSE, answer |-> "none"]
NoCheck == [isLoop |-> FALSE, risk |-> "low"]

\* the (name, arguments) pairs a provider response may carry
ReadX == [name |-> "read_file", arguments |-> PayReadX]
WriteHi == [name |-> "write_file", arguments |-> PayWriteHi]
WriteEval == [name |-> "write_file", arguments |-> PayWriteEval]
RmRf == [name |-> "run_command", arguments |-> PayRmRf]
WriteBroken == [name |-> "write_file", arguments |-> PayBroken]
Screenshot == [name |-> "browser_screenshot", arguments |-> PayUrl]
McpEcho == [name |-> "fs__echo", arguments |-> PayReadX]
EditEval == [name |-> "edit_file", arguments |-> PayEditEval]
EditBoth == [name |-> "edit_file", arguments |-> PayEditBoth]

\* the model follows one session per pool: the calls the model's provider
\* chooses from in that session
Pools ==
    { {WriteHi, WriteEval}, {WriteHi, WriteBroken}, {RmRf, ReadX}, {Screenshot, WriteEval},
      {McpEcho, ReadX} }

\* a session whose provider edits files
EditPools == { {EditEval, EditBoth}, {EditBoth, Screenshot} }

\* a session whose provider reads one file again and again; it is followed for
\* MaxMore steps more than the others
TurnPools == { {ReadX} }
sessionSteps(p) == IF p \in TurnPools THEN MaxSteps + MaxMore ELSE MaxSteps

\* chat(): the fresh ChatState, after loopDetector.reset()
ChatState(pools) ==
    /\ messages = <<systemMessage>>
    /\ permissions = createPermissionState
    /\ streaming \in BOOLEAN
    /\ history = <<>>
    /\ consecutiveRepeats = 0
    /\ auditLog = <<>>
    /\ pc = "idle"
    /\ iterations = 0
    /\ pendingToolCalls = <<>>
    /\ idx = 0
    /\ warned = FALSE
    /\ turnEnd = "none"
    /\ providerCalls = 0
    /\ executed = <<>>
    /\ trail = <<>>
    /\ gate = NoGate
    /\ issued = 0
    /\ lastCheck = NoCheck
    /\ ldLast = <<>>
    /\ ldRun = 0
    /\ sinceReset = 0
    /\ ldCount = 0
    /\ pool \in pools
    /\ steps = 0
    /\ pgLog = <<>>
    /\ pgWaiting = <<>>
    /\ adapter = "none"
    /\ deltas = <<>>
    /\ currentToolCall = [id |-> "", name |-> "", arguments |-> ""]
    /\ chunks = <<>>
    /\ streamEnd = "none"
    /\ provider = "none"
    /\ mode = "none"
    /\ useTools = TRUE
    /\ attempt = 0
    /\ requests = <<>>
    /\ outcome = "none"
    /\ structured = <<>>
    /\ fullContent = ""
    /\ fbBatch = <<>>
    /\ fbPc = "idle"
    /\ auditFile = ""
    /\ sessionStats = [total |-> 0, blocked |-> 0, errors |-> 0]
    /\ logCalls = 0
    /\ scanLog = <<>>
    /\ retryOptions = [maxRetries |-> 0]
    /\ retryPc = "idle"
    /\ retryAttempt = 0
    /\ fnCalls = <<>>
    /\ sleeps = <<>>
    /\ lastError = [ok |-> FALSE, status |-> 0, name |-> "null", at |-> 0]
    /\ retryResult = [ok |-> FALSE, status |-> 0, name |-> "null", at |-> 0]
    /\ netMode = "none"
    /\ netPhase = "idle"
    /\ timeoutId = "unset"
    /\ expiredIn = "never"
    /\ responseOk = FALSE
    /\ bodyReads = 0
    /\ netResult = "none"

Init == ChatState(Pools)

\* one more step of the session
Tick == steps < sessionSteps(pool) /\ steps' = steps + 1 /\ UNCHANGED auxVars

\* while (iterations < maxIterations)
whileCondition(n) == n < maxIterations

\* if (iterations >= maxIterations) after the loop
exitWarning(n) == n >= maxIterations

\* the loop is left by break or by an exception: the code after the loop runs
LeaveLoop(n, how) ==
    /\ pc' = "idle"
    /\ warned' = exitWarning(n)
    /\ turnEnd' = how
    /\ pendingToolCalls' = <<>>
    /\ idx' = 0

\* mutant: a finished call leaves the for-of loop (break instead of continue)
NextCallBreak ==
    IF whileCondition(iterations)
    THEN /\ pc' = "loop"
         /\ pendingToolCalls' = <<>>
         /\ idx' = 0
         /\ UNCHANGED <<warned, turnEnd>>
    ELSE LeaveLoop(iterations, "cap")

\* `continue` of the for-of loop; after the last call the `continue` of the while loop
NextCall ==
    IF idx < Len(pendingToolCalls)
    THEN /\ idx' = idx + 1
         /\ pc' = "call"
         /\ UNCHANGED <<pendingToolCalls, warned, turnEnd>>
    ELSE IF whileCondition(iterations)
         THEN /\ pc' = "loop"
              /\ pendingToolCalls' = <<>>
              /\ idx' = 0
              /\ UNCHANGED <<warned, turnEnd>>
         ELSE LeaveLoop(iterations, "cap")

\* mutant: every turn starts with a fresh detector
detectorResetPerTurn(detector) == reset(detector)

\* the detector when the while loop starts: runAgentStreaming has not touched it
detectorAtTurnStart(detector) == detector

\* runAgentStreaming up to the while loop
StartTurn ==
    /\ Tick
    /\ pc = "idle"
    /\ messages' = Append(messages, userMessage)
    /\ iterations' = 0
    /\ providerCalls' = 0
    /\ warned' = FALSE
    /\ turnEnd' = "none"
    /\ trail' = <<>>
    /\ gate' = NoGate
    /\ pc' = IF whileCondition(0) THEN "loop" ELSE "idle"
    /\ UNCHANGED <<permissions, streaming, auditLog, pendingToolCalls, idx, executed, issued,
                   ldCount, pool>>
    /\ LET detector == detectorAtTurnStart([history |-> history,
                                            consecutiveRepeats |-> consecutiveRepeats])
       IN /\ history' = detector.history
          /\ consecutiveRepeats' = detector.consecutiveRepeats
    /\ UNCHANGED <<lastCheck, ldLast, ldRun, sinceReset>>

\* what the iteration has collected in fullContent and in its local pendingToolCalls
\* when the provider call fails
PartialResponses(calls) ==
    { [content |-> "", calls |-> <<>>], [content |-> "I will", calls |-> <<>>] }
        \cup { [content |-> "", calls |-> <<c>>] : c \in calls }

\* mutant: the partial response is appended as an assistant message
keepPartialResponse(msgs, partial) ==
    Append(msgs, assistantMessage(partial.content,
                                  [i \in 1..Len(partial.calls) |->
                                      [id |-> i, name |-> partial.calls[i].name,
                                       arguments |-> partial.calls[i].arguments]]))

\* state.messages after a failed provider call: the `return` or the `break` comes
\* before the push of the assistant message, fullContent and the collected calls
\* are dropped with the iteration
afterProviderFailure(msgs, partial) == msgs

\* the provider call fails: an error chunk of the stream (return), or an exception
\* of stream() or chat() (catch, break)
ProviderError ==
    /\ Tick
    /\ pc = "loop"
    /\ iterations' = iterations + 1
    /\ providerCalls' = providerCalls + 1
    /\ \E how \in (IF streaming THEN {"chunk", "throw"} ELSE {"throw"}) :
          IF how = "chunk"
          THEN /\ pc' = "idle"
               /\ turnEnd' = "error"
               /\ UNCHANGED <<warned, pendingToolCalls, idx>>
          ELSE LeaveLoop(iterations + 1, "provider_exception")
    /\ \E partial \in PartialResponses(IF streaming THEN pool ELSE {}) :
          messages' = afterProviderFailure(messages, partial)
    /\ UNCHANGED <<permissions, streaming, auditLog, executed, trail, gate, issued,
                   ldCount, pool>>
    /\ UNCHANGED loopVars

\* the response carries no tool call: the final answer
ProviderFinal ==
    /\ Tick
    /\ pc = "loop"
    /\ iterations' = iterations + 1
    /\ providerCalls' = providerCalls + 1
    /\ messages' = Append(messages, assistantMessage("Done.", <<>>))
    /\ LeaveLoop(iterations + 1, "final")
    /\ UNCHANGED <<permissions, streaming, auditLog, executed, trail, gate, issued,
                   ldCount, pool>>
    /\ UNCHANGED loopVars

\* the response carries tool calls: the assistant message is appended and the
\* for-of loop over the batch starts
ProviderToolCalls ==
    /\ Tick
    /\ pc = "loop"
    /\ \E n \in 1..MaxBatch : \E batch \in [1..n -> pool] :
          /\ LET calls == [i \in 1..n |-> [id |-> issued + i, name |-> batch[i].name,
                                            arguments |-> batch[i].arguments]]
             IN /\ pendingToolCalls' = calls
                /\ messages' = Append(messages, assistantMessage("", calls))
          /\ issued' = issued + n
    /\ iterations' = iterations + 1
    /\ providerCalls' = providerCalls + 1
    /\ idx' = 1
    /\ pc' = "call"
    /\ trail' = <<>>
    /\ gate' = NoGate
    /\ UNCHANGED <<permissions, streaming, auditLog, executed, warned, turnEnd, ldCount, pool>>
    /\ UNCHANGED loopVars

\* mutant: the agent loop blocks every flagged call
loopBlockedAnyLoop(loopCheck) == loopCheck.isLoop

\* mutant: the agent loop blocks on the wrong risk level
loopBlockedMedium(loopCheck) == loopCheck.isLoop /\ loopCheck.risk = "medium"

\* if (loopCheck.isLoop && loopCheck.risk === 'high')
loopBlocked(loopCheck) == loopCheck.isLoop /\ loopCheck.risk = "high"

\* mutant: the scan guard forgets write_file
scanAppliesEditOnly(name, args) ==
    name = "edit_file" /\ (args.content # "" \/ args.replace # "")

\* the guard of the security scan and the text it scans
scanApplies(name, args) ==
    name \in {"write_file", "edit_file"} /\ (args.content # "" \/ args.replace # "")
scanInput(args) == IF args.content # "" THEN args.content ELSE args.replace

\* toolCall.name.startsWith('browser_') on the tool names of the model
needsPlaywright(name) == name = "browser_screenshot"

\* the ghost run length of identical (action, args) checks
runAfter(last, run, action, args) == IF last = <<action, args>> THEN run + 1 ELSE 1

\* mutant: the permission gate is asked before the scanner's verdict is used
firstStopGateFirst(ok, blocked, rejected, unprompted, playwright) ==
    IF ~ok THEN "exception"
    ELSE IF blocked THEN "loop"
    ELSE IF ~unprompted THEN "prompt"
    ELSE IF rejected THEN "security"
    ELSE IF playwright THEN "deps"
    ELSE "exec"

\* where the pipeline of a call stops first, in the order of the code: JSON.parse,
\* the loop check, the security scan, checkPermission, the dependency check
firstStop(ok, blocked, rejected, unprompted, playwright) ==
    IF ~ok THEN "exception"
    ELSE IF blocked THEN "loop"
    ELSE IF rejected THEN "security"
    ELSE IF ~unprompted THEN "prompt"
    ELSE IF playwright THEN "deps"
    ELSE "exec"

\* one call of the batch, from JSON.parse to the first await that can wait:
\* the prompt of checkPermission, ensurePlaywright, or executeTool
PipelineCall ==
    /\ Tick
    /\ pc = "call"
    /\ LET toolCall == pendingToolCalls[idx]
           parsed == parseArguments(toolCall.arguments)
           args == parsed.value
           loopCheck == check(history, consecutiveRepeats, toolCall.name, args)
           scanResult == scan(scanInput(args))
           kind == firstStop(parsed.ok, loopBlocked(loopCheck),
                             scanApplies(toolCall.name, args) /\ ~scanResult.approved,
                             approvedWithoutPrompt(toolCall.name, args, permissions),
                             needsPlaywright(toolCall.name))
       IN /\ IF parsed.ok
             THEN /\ history' = loopCheck.history
                  /\ consecutiveRepeats' = loopCheck.consecutiveRepeats
                  /\ lastCheck' = [isLoop |-> loopCheck.isLoop, risk |-> loopCheck.risk]
                  /\ ldRun' = runAfter(ldLast, ldRun, toolCall.name, args)
                  /\ ldLast' = <<toolCall.name, args>>
                  /\ sinceReset' = sinceReset + 1
             ELSE UNCHANGED loopVars
          /\ auditLog' = IF kind = "loop"
                         THEN Append(auditLog, [action |-> toolCall.name, args |-> args,
                                                result |-> "blocked", loopDetected |-> TRUE])
                         ELSE auditLog
          /\ messages' =
                CASE kind = "loop" ->
                        Append(messages, toolMessage(toolCall.id, "LOOP DETECTED: Try a different approach."))
                  [] kind = "security" ->
                        Append(messages, toolMessage(toolCall.id, "BLOCKED: " \o scanResult.issues[1].message))
                  [] OTHER -> messages
          /\ trail' =
                CASE kind = "exception" -> <<"parse">>
                  [] kind = "loop" -> <<"parse", "loop", "audit", "result">>
                  [] kind = "security" -> <<"parse", "loop", "scan", "result">>
                  [] OTHER -> <<"parse", "loop">>
                              \o (IF scanApplies(toolCall.name, args) THEN <<"scan">> ELSE <<>>)
                              \o <<"permission">>
          /\ gate' = IF kind \in {"prompt", "deps", "exec"}
                     THEN [auto |-> permissions.autoApprove,
                           cached |-> actionKey(toolCall.name, args) \in permissions.approvedThisSession,
                           answer |-> "none"]
                     ELSE NoGate
          /\ CASE kind = "exception" -> LeaveLoop(iterations, "exception")
               [] kind \in {"loop", "security"} -> NextCall
               [] OTHER -> /\ pc' = kind
                           /\ UNCHANGED <<pendingToolCalls, idx, warned, turnEnd>>
    /\ UNCHANGED <<permissions, streaming, iterations, providerCalls, executed, issued,
                   ldCount, pool>>

\* the user answers the confirm() prompt of checkPermission with yes
PromptYes ==
    /\ Tick
    /\ pc = "prompt"
    /\ LET toolCall == pendingToolCalls[idx]
           args == parseArguments(toolCall.arguments).value
       IN /\ permissions' = [permissions EXCEPT !.approvedThisSession =
                                @ \cup {actionKey(toolCall.name, args)}]
          /\ pc' = IF needsPlaywright(toolCall.name) THEN "deps" ELSE "exec"
    /\ gate' = [gate EXCEPT !.answer = "yes"]
    /\ trail' = Append(trail, "prompt")
    /\ UNCHANGED <<messages, streaming, auditLog, iterations, pendingToolCalls, idx, warned,
                   turnEnd, providerCalls, executed, issued, ldCount, pool>>
    /\ UNCHANGED loopVars

\* the user answers the prompt with no
PromptNo ==
    /\ Tick
    /\ pc = "prompt"
    /\ messages' = Append(messages, toolMessage(pendingToolCalls[idx].id, "User denied permission."))
    /\ gate' = [gate EXCEPT !.answer = "no"]
    /\ trail' = trail \o <<"prompt", "result">>
    /\ NextCall
    /\ UNCHANGED <<permissions, streaming, auditLog, iterations, providerCalls, executed,
                   issued, ldCount, pool>>
    /\ UNCHANGED loopVars

\* ensurePlaywright() resolves to true
DepsReady ==
    /\ Tick
    /\ pc = "deps"
    /\ pc' = "exec"
    /\ trail' = Append(trail, "deps")
    /\ UNCHANGED <<messages, permissions, streaming, auditLog, iterations, pendingToolCalls,
                   idx, warned, turnEnd, providerCalls, executed, gate, issued, ldCount, pool>>
    /\ UNCHANGED loopVars

\* ensurePlaywright() resolves to false
DepsMissing ==
    /\ Tick
    /\ pc = "deps"
    /\ messages' = Append(messages, toolMessage(pendingToolCalls[idx].id, "Error: Playwright not installed."))
    /\ trail' = trail \o <<"deps", "result">>
    /\ NextCall
    /\ UNCHANGED <<permissions, streaming, auditLog, iterations, providerCalls, executed,
                   gate, issued, ldCount, pool>>
    /\ UNCHANGED loopVars

\* the handlers that can throw: the browser handlers reject when Playwright fails;
\* the file and shell handlers catch their own errors and return a string
handlerMayThrow(name) == name = "browser_screenshot"

\* the names of the registry's handlers, on the tool names of the model
allHandlers == {"read_file", "write_file", "edit_file", "run_command", "browser_screenshot"}

\* executeTool(name, args): the handler's string, the string made of the
\* exception it threw, or the answer for a name without a handler
executeTool(name, threw) ==
    IF name \notin allHandlers THEN "Unknown tool: " \o name \o ". Available: read_file, write_file..."
    ELSE IF threw THEN "Error executing " \o name \o ": failed" ELSE "result of " \o name

\* await executeTool(...), the audit record and the tool-result message
ExecuteTool ==
    /\ Tick
    /\ pc = "exec"
    /\ LET toolCall == pendingToolCalls[idx]
           args == parseArguments(toolCall.arguments).value
       IN \E threw \in (IF handlerMayThrow(toolCall.name) THEN BOOLEAN ELSE {FALSE}) :
             /\ executed' = Append(executed, [id |-> toolCall.id, name |-> toolCall.name,
                                              args |-> args, auto |-> gate.auto,
                                              cached |-> gate.cached, answer |-> gate.answer])
             /\ auditLog' = Append(auditLog, [action |-> toolCall.name, args |-> args,
                                              result |-> "success", loopDetected |-> FALSE])
             /\ messages' = Append(messages, toolMessage(toolCall.id, executeTool(toolCall.name, threw)))
    /\ trail' = trail \o <<"execute", "audit", "result">>
    /\ NextCall
    /\ UNCHANGED <<permissions, streaming, iterations, providerCalls, gate, issued,
                   ldCount, pool>>
    /\ UNCHANGED loopVars

\* /clear
SlashClear ==
    /\ Tick
    /\ pc = "idle"
    /\ messages' = <<systemMessage>>
    /\ LET fresh == reset([history |-> history, consecutiveRepeats |-> consecutiveRepeats])
       IN /\ history' = fresh.history
          /\ consecutiveRepeats' = fresh.consecutiveRepeats
    /\ ldLast' = <<>>
    /\ ldRun' = 0
    /\ sinceReset' = 0
    /\ UNCHANGED <<permissions, streaming, auditLog, pc, iterations, pendingToolCalls, idx,
                   warned, turnEnd, providerCalls, executed, trail, gate, issued,
                   lastCheck, ldCount, pool>>

\* /yolo
SlashYolo ==
    /\ Tick
    /\ pc = "idle"
    /\ permissions' = toggleAutoApprove(permissions)
    /\ UNCHANGED <<messages, streaming, auditLog, pc, iterations, pendingToolCalls, idx,
                   warned, turnEnd, providerCalls, executed, trail, gate, issued, ldCount, pool>>
    /\ UNCHANGED loopVars

Next ==
    \/ StartTurn
    \/ ProviderError
    \/ ProviderFinal
    \/ ProviderToolCalls
    \/ PipelineCall
    \/ PromptYes
    \/ PromptNo
    \/ DepsReady
    \/ DepsMissing
    \/ ExecuteTool
    \/ SlashClear
    \/ SlashYolo

Spec == Init /\ [][Next]_vars

\* the agent loop in a session of repeated reads: no call of it reaches the prompt
\* or the dependency check
InitTurns == ChatState(TurnPools)
NextTurns ==
    \/ StartTurn
    \/ ProviderError
    \/ ProviderFinal
    \/ ProviderToolCalls
    \/ PipelineCall
    \/ ExecuteTool
    \/ SlashClear
    \/ SlashYolo
SpecTurns == InitTurns /\ [][NextTurns]_vars

\* the agent loop in a session of file edits
InitEdits == ChatState(EditPools)
SpecEdits == InitEdits /\ [][Next]_vars

\* ------------------------------------------------- the loop detector alone
\* the (action, args) pairs checked: '' and '{}' parse to the same arguments
CheckInputs ==
    { <<"read_file", PayReadX>>, <<"write_file", PayWriteHi>>, <<"write_file", PayWriteEval>>,
      <<"git_status", "">>, <<"git_status", "{}">> }

LDCheck ==
    /\ ldCount < MaxChecks
    /\ \E in \in CheckInputs :
          LET action == in[1]
              args == parseArguments(in[2]).value
              r == check(history, consecutiveRepeats, action, args)
          IN /\ history' = r.history
             /\ consecutiveRepeats' = r.consecutiveRepeats
             /\ lastCheck' = [isLoop |-> r.isLoop, risk |-> r.risk]
             /\ ldRun' = runAfter(ldLast, ldRun, action, args)
             /\ ldLast' = <<action, args>>
             /\ sinceReset' = sinceReset + 1
    /\ ldCount' = ldCount + 1
    /\ UNCHANGED <<agentVars, steps, auxVars>>

\* LoopDetector.reset()
LDReset ==
    /\ ldCount < MaxChecks
    /\ LET fresh == reset([history |-> history, consecutiveRepeats |-> consecutiveRepeats])
       IN /\ history' = fresh.history
          /\ consecutiveRepeats' = fresh.consecutiveRepeats
    /\ ldLast' = <<>>
    /\ ldRun' = 0
    /\ sinceReset' = 0
    /\ UNCHANGED <<lastCheck, ldCount>>
    /\ UNCHANGED <<agentVars, steps, auxVars>>

NextLD == LDCheck \/ LDReset

SpecLD == Init /\ [][NextLD]_vars

\* ------------------------------------------------- the loop detector in a long session
\* the k-th call of a session that reads one file after the other
distinctCall(k) == <<"read_file", [NoArgs EXCEPT !.path = "f" \o ToString(k)]>>

\* the session follows distinct reads until the history is nearly full
FreeFrom == maxHistory - 2

\* the calls the k-th check of the session may be given
WindowInputs(k) ==
    {distinctCall(k)}
        \cup (IF k > FreeFrom
              THEN { <<"write_file", parseArguments(PayWriteHi).value>>,
                     <<"read_file", parseArguments(PayReadX).value>> }
              ELSE {})

LDCheckWindow ==
    /\ ldCount < maxHistory + MaxLate
    /\ \E in \in WindowInputs(ldCount + 1) :
          LET r == check(history, consecutiveRepeats, in[1], in[2])
          IN /\ history' = r.history
             /\ consecutiveRepeats' = r.consecutiveRepeats
             /\ lastCheck' = [isLoop |-> r.isLoop, risk |-> r.risk]
             /\ ldRun' = runAfter(ldLast, ldRun, in[1], in[2])
             /\ ldLast' = in
             /\ sinceReset' = sinceReset + 1
    /\ ldCount' = ldCount + 1
    /\ UNCHANGED <<agentVars, steps, auxVars>>

\* LoopDetector.reset()
LDResetWindow ==
    /\ ldCount > FreeFrom
    /\ ldCount < maxHistory + MaxLate
    /\ history # <<>>
    /\ LET fresh == reset([history |-> history, consecutiveRepeats |-> consecutiveRepeats])
       IN /\ history' = fresh.history
          /\ consecutiveRepeats' = fresh.consecutiveRepeats
    /\ ldLast' = <<>>
    /\ ldRun' = 0
    /\ sinceReset' = 0
    /\ UNCHANGED <<lastCheck, ldCount>>
    /\ UNCHANGED <<agentVars, steps, auxVars>>

NextLDWindow == LDCheckWindow \/ LDResetWindow

SpecLDWindow == Init /\ [][NextLDWindow]_vars

\* ------------------------------------------------- the permission gate alone
\* the (name, args) pairs checkPermission is called with
GateInputs ==
    { <<"write_file", PayWriteHi>>, <<"delete_file", PayReadX>>, <<"read_file", PayReadX>> }

\* checkPermission(name, args, state) up to its return or its prompt
CheckPermission ==
    /\ Len(pgLog) < MaxGateCalls
    /\ pgWaiting = <<>>
    /\ \E in \in GateInputs :
          LET name == in[1]
              args == parseArguments(in[2]).value
          IN IF approvedWithoutPrompt(name, args, permissions)
             THEN /\ pgLog' = Append(pgLog, [key |-> actionKey(name, args), name |-> name,
                                             prompted |-> FALSE, approved |-> TRUE])
                  /\ permissions' = stateAfterCheck(permissions, actionKey(name, args), FALSE, TRUE)
                  /\ UNCHANGED pgWaiting
             ELSE /\ pgWaiting' = <<name, args>>
                  /\ UNCHANGED <<pgLog, permissions>>
    /\ UNCHANGED <<sessionVars, loopVars, ldCount, steps, streamVars, providerVars, fallbackVars, unitVars>>

\* confirm() resolves: the approved key is added to the session set
ConfirmAnswer ==
    /\ pgWaiting # <<>>
    /\ \E approved \in BOOLEAN :
          LET key == actionKey(pgWaiting[1], pgWaiting[2])
          IN /\ permissions' = stateAfterCheck(permissions, key, TRUE, approved)
             /\ pgLog' = Append(pgLog, [key |-> key, name |-> pgWaiting[1],
                                        prompted |-> TRUE, approved |-> approved])
    /\ pgWaiting' = <<>>
    /\ UNCHANGED <<sessionVars, loopVars, ldCount, steps, streamVars, providerVars, fallbackVars, unitVars>>

\* toggleAutoApprove(state) between two calls
GateToggle ==
    /\ Len(pgLog) < MaxGateCalls
    /\ pgWaiting = <<>>
    /\ permissions' = toggleAutoApprove(permissions)
    /\ UNCHANGED <<gateVars, sessionVars, loopVars, ldCount, steps, streamVars, providerVars, fallbackVars, unitVars>>

NextPG == CheckPermission \/ ConfirmAnswer \/ GateToggle

SpecPG == Init /\ [][NextPG]_vars

\* ------------------------------------------------- the stream() adapters alone
\* OpenRouterProvider.stream and OpenAIProvider.stream run the same reconstruction
\* of tool calls from the deltas of the response body.  A delta of the model carries
\* a content text or one tool_calls entry; '' is an absent field.
NoCall == [id |-> "", name |-> "", arguments |-> ""]

textDelta(content) == [content |-> content, tool |-> FALSE, id |-> "", name |-> "", arguments |-> ""]
toolDelta(id, name, arguments) ==
    [content |-> "", tool |-> TRUE, id |-> id, name |-> name, arguments |-> arguments]

\* the deltas a provider sends: a call opened in fragments, its fragments without an
\* id, a whole call, a fragment that repeats the id of its call, a text
Deltas ==
    { toolDelta("1", "read_fi", ""),
      toolDelta("", "le", ""),
      toolDelta("", "", "{\"path\":"),
      toolDelta("", "", "\"x.txt\"}"),
      toolDelta("2", "write_file", PayWriteHi),
      toolDelta("1", "", "\"x.txt\"}"),
      textDelta("ok") }

textChunk(content) == [type |-> "text", content |-> content, toolCall |-> NoCall]
toolCallChunk(call) == [type |-> "tool_call", content |-> "", toolCall |-> call]
doneChunk == [type |-> "done", content |-> "", toolCall |-> NoCall]
errorChunk == [type |-> "error", content |-> "", toolCall |-> NoCall]

\* yield { type: 'tool_call', toolCall: currentToolCall } when a call is open
emitOpen(call) == IF call.id # "" THEN <<toolCallChunk(call)>> ELSE <<>>

\* mutant: the end of the body emits the open call as the sentinel does
endOfBodyEmits(call) == emitOpen(call) \o <<doneChunk>>

\* the chunks yielded when reader.read() reports done: `break`, then the final done
endOfBody(call) == <<doneChunk>>

\* the response is ok and has a body: the read loop starts
StreamOpen ==
    /\ streamEnd = "none"
    /\ adapter = "none"
    /\ adapter' \in {"openrouter", "openai"}
    /\ UNCHANGED <<deltas, currentToolCall, chunks, streamEnd>>
    /\ UNCHANGED <<agentVars, loopVars, ldCount, steps, gateVars, providerVars, fallbackVars, unitVars>>

\* one `data: {...}` line: delta.content, then delta.tool_calls
StreamDelta ==
    /\ adapter # "none"
    /\ streamEnd = "none"
    /\ Len(deltas) < MaxDeltas
    /\ \E d \in Deltas :
          /\ deltas' = Append(deltas, d)
          /\ chunks' = chunks
                        \o (IF d.content # "" THEN <<textChunk(d.content)>> ELSE <<>>)
                        \o (IF d.tool /\ d.id # "" THEN emitOpen(currentToolCall) ELSE <<>>)
          /\ currentToolCall' =
                IF ~d.tool THEN currentToolCall
                ELSE IF d.id # "" THEN [id |-> d.id, name |-> d.name, arguments |-> d.arguments]
                ELSE IF currentToolCall.id # ""
                     THEN [currentToolCall EXCEPT !.name = @ \o d.name,
                                                  !.arguments = @ \o d.arguments]
                     ELSE currentToolCall
    /\ UNCHANGED <<adapter, streamEnd>>
    /\ UNCHANGED <<agentVars, loopVars, ldCount, steps, gateVars, providerVars, fallbackVars, unitVars>>

\* the `data: [DONE]` line
StreamSentinel ==
    /\ adapter # "none"
    /\ streamEnd = "none"
    /\ chunks' = chunks \o emitOpen(currentToolCall) \o <<doneChunk>>
    /\ streamEnd' = "sentinel"
    /\ UNCHANGED <<adapter, deltas, currentToolCall>>
    /\ UNCHANGED <<agentVars, loopVars, ldCount, steps, gateVars, providerVars, fallbackVars, unitVars>>

\* reader.read() reports done before any [DONE] line
StreamEndOfBody ==
    /\ adapter # "none"
    /\ streamEnd = "none"
    /\ chunks' = chunks \o endOfBody(currentToolCall)
    /\ streamEnd' = "eof"
    /\ UNCHANGED <<adapter, deltas, currentToolCall>>
    /\ UNCHANGED <<agentVars, loopVars, ldCount, steps, gateVars, providerVars, fallbackVars, unitVars>>

\* reader.read() rejects: the catch of stream() yields an error chunk
StreamFailure ==
    /\ adapter # "none"
    /\ streamEnd = "none"
    /\ chunks' = Append(chunks, errorChunk)
    /\ streamEnd' = "error"
    /\ UNCHANGED <<adapter, deltas, currentToolCall>>
    /\ UNCHANGED <<agentVars, loopVars, ldCount, steps, gateVars, providerVars, fallbackVars, unitVars>>

NextStream == StreamOpen \/ StreamDelta \/ StreamSentinel \/ StreamEndOfBody \/ StreamFailure

SpecStream == Init /\ [][NextStream]_vars

\* ------------------------------------------------- QwenFreeProvider.stream alone
\* `call_${Math.random().toString(36).slice(2)}`: the ids made up for an entry
\* that carries none
RandomIds == {"call_k3x", "call_9fq"}

\* the chunks after the yield for one entry of delta.tool_calls: the entry itself,
\* under its own id or a made-up one
qwenYield(yielded, d, randomId) ==
    Append(yielded, toolCallChunk([id |-> IF d.id # "" THEN d.id ELSE randomId,
                                   name |-> d.name, arguments |-> d.arguments]))

\* client.chat.completions.create resolved: the for-await loop over the stream starts
QwenOpen ==
    /\ streamEnd = "none"
    /\ adapter = "none"
    /\ adapter' = "qwen-free"
    /\ UNCHANGED <<deltas, currentToolCall, chunks, streamEnd>>
    /\ UNCHANGED <<agentVars, loopVars, ldCount, steps, gateVars, providerVars, fallbackVars, unitVars>>

\* one chunk of the stream: delta.content, then the entries of delta.tool_calls
QwenChunk ==
    /\ adapter = "qwen-free"
    /\ streamEnd = "none"
    /\ Len(deltas) < MaxQwenChunks
    /\ \E d \in Deltas : \E randomId \in (IF d.tool /\ d.id = "" THEN RandomIds ELSE {""}) :
          /\ deltas' = Append(deltas, d)
          /\ chunks' = IF d.tool THEN qwenYield(chunks, d, randomId)
                       ELSE IF d.content # "" THEN Append(chunks, textChunk(d.content))
                       ELSE chunks
    /\ UNCHANGED <<adapter, currentToolCall, streamEnd>>
    /\ UNCHANGED <<agentVars, loopVars, ldCount, steps, gateVars, providerVars, fallbackVars, unitVars>>

\* the stream is exhausted: the generator returns without another chunk
QwenEnd ==
    /\ adapter = "qwen-free"
    /\ streamEnd = "none"
    /\ streamEnd' = "eof"
    /\ UNCHANGED <<adapter, deltas, currentToolCall, chunks>>
    /\ UNCHANGED <<agentVars, loopVars, ldCount, steps, gateVars, providerVars, fallbackVars, unitVars>>

\* the request or the iteration throws: the catch block yields an error chunk
QwenFailure ==
    /\ adapter = "qwen-free"
    /\ streamEnd = "none"
    /\ chunks' = Append(chunks, errorChunk)
    /\ streamEnd' = "error"
    /\ UNCHANGED <<adapter, deltas, currentToolCall>>
    /\ UNCHANGED <<agentVars, loopVars, ldCount, steps, gateVars, providerVars, fallbackVars, unitVars>>

NextQwen == QwenOpen \/ QwenChunk \/ QwenEnd \/ QwenFailure

SpecQwen == Init /\ [][NextQwen]_vars

\* ------------------------------------------------- one provider call
\* what the server answers to a request: an HTTP status with an error text, or the
\* fetch is aborted by the timeout of the AbortController (status 0)
Ok == [status |-> 200, text |-> "ok", aborted |-> FALSE]
Unauthorized == [status |-> 401, text |-> "No auth credentials found", aborted |-> FALSE]
Forbidden == [status |-> 403, text |-> "Key limit exceeded", aborted |-> FALSE]
ToolsUnsupported == [status |-> 404, text |-> "No endpoints found that support tool use", aborted |-> FALSE]
FunctionsUnsupported == [status |-> 400, text |-> "This model does not support function calling", aborted |-> FALSE]
ServerError == [status |-> 500, text |-> "Internal Server Error", aborted |-> FALSE]
Aborted == [status |-> 0, text |-> "", aborted |-> TRUE]

\* a server rejects the tools only of a request that carries them
Responses(withTools) ==
    {Ok, Unauthorized, Forbidden, ServerError, Aborted}
        \cup (IF withTools THEN {ToolsUnsupported, FunctionsUnsupported} ELSE {})

\* lowerError.includes('tool') || includes('function') || includes('not supported')
\* || includes('invalid') on the error texts above
mentionsTools(text) ==
    text \in {"No endpoints found that support tool use",
              "This model does not support function calling"}

\* mutant: OpenAIProvider gives up on a rejection of the tools
retriesWithoutToolsNever(name, withTools, response) == FALSE

\* OpenAIProvider: the rejection of the tools is detected and the request is made
\* again without them; the other adapters have no such test
retriesWithoutTools(name, withTools, response) ==
    /\ name = "openai"
    /\ withTools
    /\ response.status \in {400, 404, 422}
    /\ mentionsTools(response.text)

\* the error chat() throws: `new Error(...)` for a status that is not ok, and
\* `new Error('Request timed out ...')` in place of the AbortError of the fetch;
\* status 0 is the absent property
thrownError(response) == [status |-> 0, name |-> "Error"]

\* withRetry: error.status === 401 || error.status === 403 || error.name === 'AbortError'
neverRetried(error) == error.status = 401 \/ error.status = 403 \/ error.name = "AbortError"

\* the agent loop calls withRetry(() => provider.chat(...)) or provider.stream(...)
ProviderCall ==
    /\ provider = "none"
    /\ provider' \in {"openrouter", "openai", "claude"}
    /\ mode' \in {"chat", "stream"}
    /\ UNCHANGED <<useTools, attempt, requests, outcome>>
    /\ UNCHANGED <<agentVars, loopVars, ldCount, steps, gateVars, streamVars, fallbackVars, unitVars>>

\* one fetch and what the adapter and withRetry make of its response
ProviderRequest ==
    /\ provider # "none"
    /\ outcome = "none"
    /\ \E response \in Responses(useTools) :
          /\ requests' = Append(requests, [useTools |-> useTools, response |-> response])
          /\ IF response.status = 200
             THEN /\ outcome' = "response"
                  /\ UNCHANGED <<useTools, attempt>>
             ELSE IF retriesWithoutTools(provider, useTools, response)
             THEN /\ useTools' = FALSE
                  /\ UNCHANGED <<attempt, outcome>>
             ELSE IF mode = "stream"
             THEN /\ outcome' = "error"
                  /\ UNCHANGED <<useTools, attempt>>
             ELSE IF neverRetried(thrownError(response)) \/ attempt + 1 >= maxRetries
             THEN /\ outcome' = "error"
                  /\ attempt' = attempt + 1
                  /\ UNCHANGED useTools
             ELSE /\ attempt' = attempt + 1
                  /\ useTools' = TRUE
                  /\ UNCHANGED outcome
    /\ UNCHANGED <<provider, mode>>
    /\ UNCHANGED <<agentVars, loopVars, ldCount, steps, gateVars, streamVars, fallbackVars, unitVars>>

NextProvider == ProviderCall \/ ProviderRequest

SpecProvider == Init /\ [][NextProvider]_vars

\* ------------------------------------------------- one call of OpenAIProvider
\* chat() or stream() is called: the first request carries the tools
OpenAICall ==
    /\ provider = "none"
    /\ provider' = "openai"
    /\ mode' \in {"chat", "stream"}
    /\ UNCHANGED <<useTools, attempt, requests, outcome>>
    /\ UNCHANGED streamVars
    /\ UNCHANGED <<agentVars, loopVars, ldCount, steps, gateVars, fallbackVars, unitVars>>

\* makeRequest(useTools) or executeStream(useTools) up to the test of response.ok:
\* a rejection of the tools returns null or throws RETRY_WITHOUT_TOOLS and the call
\* goes on without them; another failure is thrown by chat() and yielded as an
\* error chunk by stream(); a response that is ok is returned by chat() and read
\* by stream()
OpenAIRequest ==
    /\ provider = "openai"
    /\ outcome = "none"
    /\ streamEnd = "none"
    /\ IF requests = <<>> THEN TRUE ELSE requests[Len(requests)].response.status # 200
    /\ \E response \in Responses(useTools) :
          /\ requests' = Append(requests, [useTools |-> useTools, response |-> response])
          /\ IF response.status = 200
             THEN /\ outcome' = IF mode = "chat" THEN "response" ELSE "none"
                  /\ UNCHANGED <<useTools, chunks, streamEnd>>
             ELSE IF retriesWithoutTools(provider, useTools, response)
             THEN /\ useTools' = FALSE
                  /\ UNCHANGED <<outcome, chunks, streamEnd>>
             ELSE /\ outcome' = "error"
                  /\ chunks' = IF mode = "stream" THEN Append(chunks, errorChunk) ELSE chunks
                  /\ streamEnd' = IF mode = "stream" THEN "error" ELSE streamEnd
                  /\ UNCHANGED useTools
    /\ UNCHANGED <<provider, mode, attempt, adapter, deltas, currentToolCall>>
    /\ UNCHANGED <<agentVars, loopVars, ldCount, steps, gateVars, fallbackVars, unitVars>>

\* stream(): a line of the body of the response that is ok yields a chunk
OpenAIYield ==
    /\ provider = "openai"
    /\ mode = "stream"
    /\ outcome = "none"
    /\ requests # <<>>
    /\ requests[Len(requests)].response.status = 200
    /\ Len(chunks) < MaxReads
    /\ \E c \in {textChunk("ok"), toolCallChunk([id |-> "1", name |-> "read_file", arguments |-> PayReadX])} :
          chunks' = Append(chunks, c)
    /\ UNCHANGED <<provider, mode, useTools, attempt, requests, outcome, adapter, deltas,
                   currentToolCall, streamEnd>>
    /\ UNCHANGED <<agentVars, loopVars, ldCount, steps, gateVars, fallbackVars, unitVars>>

\* stream(): the body ends, or reading it fails
OpenAIBodyEnds ==
    /\ provider = "openai"
    /\ mode = "stream"
    /\ outcome = "none"
    /\ requests # <<>>
    /\ requests[Len(requests)].response.status = 200
    /\ \E failed \in BOOLEAN :
          /\ chunks' = Append(chunks, IF failed THEN errorChunk ELSE doneChunk)
          /\ streamEnd' = IF failed THEN "error" ELSE "eof"
          /\ outcome' = IF failed THEN "error" ELSE "response"
    /\ UNCHANGED <<provider, mode, useTools, attempt, requests, adapter, deltas, currentToolCall>>
    /\ UNCHANGED <<agentVars, loopVars, ldCount, steps, gateVars, fallbackVars, unitVars>>

NextOpenAI == OpenAICall \/ OpenAIRequest \/ OpenAIYield \/ OpenAIBodyEnds

SpecOpenAI == Init /\ [][NextOpenAI]_vars

\* ------------------------------------------------- the fallback parsers
\* A JSON object is the sequence of its fields in source order; a field holds a
\* string (v) or, when nested, an object (o).
strField(k, v) == [k |-> k, v |-> v, nested |-> FALSE, o |-> <<>>]
objField(k, o) == [k |-> k, v |-> "", nested |-> TRUE, o |-> o]

has(obj, k) == \E i \in 1..Len(obj) : obj[i].k = k
field(obj, k) == obj[CHOOSE i \in 1..Len(obj) : obj[i].k = k]
\* obj[k] is truthy: a nested object, or a string that is not empty
truthy(obj, k) == has(obj, k) /\ (field(obj, k).nested \/ field(obj, k).v # "")
\* obj[k] = v
set(obj, k, v) ==
    IF has(obj, k)
    THEN [i \in 1..Len(obj) |-> IF obj[i].k = k THEN strField(k, v) ELSE obj[i]]
    ELSE Append(obj, strField(k, v))

\* JSON.stringify of an object whose nested objects hold strings only
RECURSIVE stringifyFlat(_, _)
stringifyFlat(obj, i) ==
    IF i > Len(obj) THEN ""
    ELSE (IF i > 1 THEN "," ELSE "") \o "\"" \o obj[i].k \o "\":\"" \o obj[i].v \o "\""
         \o stringifyFlat(obj, i + 1)
RECURSIVE stringifyFields(_, _)
stringifyFields(obj, i) ==
    IF i > Len(obj) THEN ""
    ELSE (IF i > 1 THEN "," ELSE "") \o "\"" \o obj[i].k \o "\":"
         \o (IF obj[i].nested THEN "{" \o stringifyFlat(obj[i].o, 1) \o "}"
             ELSE "\"" \o obj[i].v \o "\"")
         \o stringifyFields(obj, i + 1)
JSONstringify(obj) == "{" \o stringifyFields(obj, 1) \o "}"

\* the assistant texts of the model
TextPlain == "Done."
TextCall == "read_file(\"x.txt\")"
TextJsonArgs == "{\"tool\":\"write_file\",\"args\":{\"path\":\"a.txt\",\"content\":\"hi\"}}"
TextJsonParams == "{\"name\":\"read_file\",\"params\":{\"path\":\"x.txt\"}}"
TextJsonUnknown == "{\"action\":\"deploy_all\",\"path\":\"a.txt\"}"
TextXml == "<write_file path=\"a.txt\" content=\"hi\" />"
TextPrintJson == "print(x) " \o PayFlatWrite
TextCallJson == "write_file(\"a.txt\", \"hi\") {\"action\":\"read_file\",\"path\":\"x.txt\"}"
TextEmptyCallJson == "read_file() " \o PayFlatWrite
TextUnknownJsonXml == TextJsonUnknown \o " " \o TextXml
Texts ==
    { TextPlain, TextCall, PayFlatWrite, TextJsonArgs, TextJsonParams, TextJsonUnknown,
      PayTargetFile, TextXml, TextPrintJson, TextCallJson, TextEmptyCallJson,
      TextUnknownJsonXml }

\* fullContent.includes(needle) on the texts of the model; none of them holds a
\* fenced json block
includes(text, needle) ==
    CASE needle = "(" -> text \in {TextCall, TextPrintJson, TextCallJson, TextEmptyCallJson}
      [] needle = "{" -> text \in Texts \ {TextPlain, TextCall, TextXml}
      [] needle = "<" -> text \in {TextXml, TextUnknownJsonXml}
      [] OTHER -> FALSE

\* the matches of toolCallRegex on the cleaned content: the name, and the quoted
\* strings stringRegex finds between the parentheses
textCallMatches(text) ==
    CASE text = TextCall -> << [name |-> "read_file", strings |-> <<"x.txt">>] >>
      [] text = TextPrintJson -> << [name |-> "print", strings |-> <<>>] >>
      [] text = TextCallJson -> << [name |-> "write_file", strings |-> <<"a.txt", "hi">>] >>
      [] text = TextEmptyCallJson -> << [name |-> "read_file", strings |-> <<>>] >>
      [] OTHER -> <<>>

\* fullContent.match(...) of fallback 2: the fenced and the brace-delimited blocks
jsonBlocks(text) ==
    CASE text \in {PayFlatWrite, TextJsonArgs, TextJsonParams, TextJsonUnknown,
                   PayTargetFile} -> <<text>>
      [] text \in {TextPrintJson, TextEmptyCallJson} -> <<PayFlatWrite>>
      [] text = TextUnknownJsonXml -> <<TextJsonUnknown>>
      [] text = TextCallJson -> <<"{\"action\":\"read_file\",\"path\":\"x.txt\"}">>
      [] OTHER -> <<>>

\* the block without its fence: the blocks of the model have none
rawJson(block) == block

\* JSON.parse of a block, as an object
parseObject(text) ==
    CASE text = PayFlatWrite ->
            <<strField("action", "write_file"), strField("path", "a.txt"), strField("content", "hi")>>
      [] text = TextJsonArgs ->
            <<strField("tool", "write_file"),
              objField("args", <<strField("path", "a.txt"), strField("content", "hi")>>)>>
      [] text = TextJsonParams ->
            <<strField("name", "read_file"), objField("params", <<strField("path", "x.txt")>>)>>
      [] text = TextJsonUnknown ->
            <<strField("action", "deploy_all"), strField("path", "a.txt")>>
      [] text = PayTargetFile ->
            <<strField("action", "write_to_file"), strField("TargetFile", "a.txt"),
              strField("CodeContent", "hi")>>
      [] OTHER -> <<strField("action", "read_file"), strField("path", "x.txt")>>

\* the matches of xmlRegex: the tag name and its attributes
xmlMatches(text) ==
    IF text \in {TextXml, TextUnknownJsonXml}
    THEN << [name |-> "write_file",
             attrs |-> <<strField("path", "a.txt"), strField("content", "hi")>>] >>
    ELSE <<>>

\* tools.some(t => t.name === toolName) on the names of the model
toolExists(name) == name \in {"read_file", "write_file", "edit_file", "run_command"}

\* the aliases fallback 1 renames
canonicalName(name) ==
    CASE name = "write_to_file" -> "write_file"
      [] name = "replace_file_content" -> "edit_file"
      [] OTHER -> name

\* the alias fallbacks 2 and 3 rename
canonicalBlockName(name) == IF name = "write_to_file" THEN "write_file" ELSE name

fallbackCall(stage, n, name, args) ==
    [id |-> "fallback_" \o stage \o "_" \o ToString(n), name |-> name,
     arguments |-> JSONstringify(args)]

\* fallback 1: the arguments built from the quoted strings of a textual call
textArgs(name, strings) ==
    IF name = "write_file" /\ Len(strings) >= 2
    THEN <<strField("path", strings[1]), strField("content", strings[2])>>
    ELSE IF name = "read_file" /\ Len(strings) >= 1
    THEN <<strField("path", strings[1])>>
    ELSE IF name = "edit_file" /\ Len(strings) >= 3
    THEN <<strField("path", strings[1]), strField("search", strings[2]),
           strField("replace", strings[3])>>
    ELSE IF name = "run_command" /\ Len(strings) >= 1
    THEN <<strField("command", strings[1])>>
    ELSE <<>>

RECURSIVE textCalls(_, _, _)
textCalls(matches, i, acc) ==
    IF i > Len(matches) THEN acc
    ELSE LET name == canonicalName(matches[i].name)
             args == textArgs(name, matches[i].strings)
         IN textCalls(matches, i + 1,
                      IF toolExists(name) /\ Len(args) > 0
                      THEN Append(acc, fallbackCall("text", Len(acc) + 1, name, args))
                      ELSE acc)

\* fallback 2: data.action || data.tool || data.name
jsonToolName(data) ==
    IF truthy(data, "action") THEN field(data, "action").v
    ELSE IF truthy(data, "tool") THEN field(data, "tool").v
    ELSE IF truthy(data, "name") THEN field(data, "name").v
    ELSE ""

\* mutant: the arguments are always the whole object
jsonArgsFlat(data) == data

\* data.args || data.arguments || data.params || data
jsonArgs(data) ==
    IF truthy(data, "args") THEN field(data, "args").o
    ELSE IF truthy(data, "arguments") THEN field(data, "arguments").o
    ELSE IF truthy(data, "params") THEN field(data, "params").o
    ELSE data

\* if (args.TargetFile) args.path = ...; if (args.CodeContent) args.content = ...
mapCommonKeys(args) ==
    LET withPath == IF truthy(args, "TargetFile")
                    THEN set(args, "path", field(args, "TargetFile").v) ELSE args
    IN IF truthy(withPath, "CodeContent")
       THEN set(withPath, "content", field(withPath, "CodeContent").v) ELSE withPath

RECURSIVE jsonCalls(_, _, _)
jsonCalls(blocks, i, acc) ==
    IF i > Len(blocks) THEN acc
    ELSE LET data == parseObject(rawJson(blocks[i]))
             name == canonicalBlockName(jsonToolName(data))
         IN jsonCalls(blocks, i + 1,
                      IF name # "" /\ toolExists(name)
                      THEN Append(acc, fallbackCall("json", Len(acc) + 1, name,
                                                    mapCommonKeys(jsonArgs(data))))
                      ELSE acc)

RECURSIVE xmlCalls(_, _, _)
xmlCalls(matches, i, acc) ==
    IF i > Len(matches) THEN acc
    ELSE LET name == canonicalBlockName(matches[i].name)
         IN xmlCalls(matches, i + 1,
                     IF name # "thinking" /\ toolExists(name) /\ Len(matches[i].attrs) > 0
                     THEN Append(acc, fallbackCall("xml", Len(acc) + 1, name, matches[i].attrs))
                     ELSE acc)

\* mutant: a fallback stage runs whatever the batch holds
stageOpenAlways(calls) == TRUE

\* pendingToolCalls.length === 0, the guard of every fallback stage
stageOpen(calls) == Len(calls) = 0

fallbackText(calls, content) ==
    IF stageOpen(calls) /\ includes(content, "(")
    THEN textCalls(textCallMatches(content), 1, calls) ELSE calls
\* mutant: the JSON stage adds its calls to those of the text stage
fallbackJsonAdds(calls, content) ==
    IF includes(content, "{") \/ includes(content, "fenced json")
    THEN jsonCalls(jsonBlocks(content), 1, calls) ELSE calls
fallbackJson(calls, content) ==
    IF stageOpen(calls) /\ (includes(content, "{") \/ includes(content, "fenced json"))
    THEN jsonCalls(jsonBlocks(content), 1, calls) ELSE calls
fallbackXml(calls, content) ==
    IF stageOpen(calls) /\ includes(content, "<")
    THEN xmlCalls(xmlMatches(content), 1, calls) ELSE calls

\* the structured calls a response carries
StructuredCalls ==
    { [id |-> "call_a", name |-> "read_file", arguments |-> PayReadX],
      [id |-> "call_b", name |-> "run_command", arguments |-> PayRmRf] }

\* the provider response has been read: its structured calls and its text
Respond ==
    /\ fbPc = "idle"
    /\ \E n \in 0..MaxStructured : \E calls \in [1..n -> StructuredCalls] :
          structured' = calls
    /\ fullContent' \in Texts
    /\ fbBatch' = <<>>
    /\ fbPc' = "received"
    /\ UNCHANGED <<agentVars, loopVars, ldCount, steps, gateVars, streamVars, providerVars, unitVars>>

\* the three fallback stages, in order, on the batch of the structured calls
Fallbacks ==
    /\ fbPc = "received"
    /\ fbBatch' = fallbackXml(fallbackJson(fallbackText(structured, fullContent), fullContent),
                            fullContent)
    /\ fbPc' = "parsed"
    /\ UNCHANGED <<structured, fullContent>>
    /\ UNCHANGED <<agentVars, loopVars, ldCount, steps, gateVars, streamVars, providerVars, unitVars>>

\* the next iteration
NextResponse ==
    /\ fbPc = "parsed"
    /\ fbPc' = "idle"
    /\ structured' = <<>>
    /\ fullContent' = ""
    /\ fbBatch' = <<>>
    /\ UNCHANGED <<agentVars, loopVars, ldCount, steps, gateVars, streamVars, providerVars, unitVars>>

NextFB == Respond \/ Fallbacks \/ NextResponse

SpecFB == Init /\ [][NextFB]_vars


\* ------------------------------------------------- the audit logger alone
\* the escapes JSON.stringify writes inside a string
RECURSIVE escapeString(_, _)
escapeString(s, i) ==
    IF i > Len(s) THEN ""
    ELSE LET c == SubSeq(s, i, i)
         IN (CASE c = "\n" -> "\\n"
               [] c = "\"" -> "\\\""
               [] c = "\\" -> "\\\\"
               [] OTHER -> c) \o escapeString(s, i + 1)

\* mutant: strings are written without escapes
quoteRaw(s) == "\"" \o s \o "\""

\* JSON.stringify of a string
quote(s) == "\"" \o escapeString(s, 1) \o "\""

\* JSON.stringify of the args object: a sequence of <<key, value>> pairs
RECURSIVE stringifyArgs(_, _)
stringifyArgs(args, i) ==
    IF i > Len(args) THEN ""
    ELSE (IF i > 1 THEN "," ELSE "") \o quote(args[i][1]) \o ":" \o quote(args[i][2])
         \o stringifyArgs(args, i + 1)

\* JSON.stringify(fullEntry): timestamp first, then the fields of the entry
stringifyEntry(entry) ==
    "{\"timestamp\":\"T\",\"action\":" \o quote(entry.action)
        \o ",\"args\":{" \o stringifyArgs(entry.args, 1) \o "}"
        \o ",\"result\":" \o quote(entry.result)
        \o (IF entry.loopDetected THEN ",\"supervision\":{\"loopDetected\":true}" ELSE "")
        \o "}"

\* the entries handed to log(): the two shapes chat.ts writes, and an error entry
AuditEntries ==
    { [action |-> "write_file", args |-> << <<"path", "a.txt">>, <<"content", "hi">> >>,
       result |-> "success", loopDetected |-> FALSE],
      [action |-> "write_file", args |-> << <<"path", "a.txt">>, <<"content", "a\nb">> >>,
       result |-> "success", loopDetected |-> FALSE],
      [action |-> "read_file", args |-> << <<"path", "x.txt">> >>,
       result |-> "blocked", loopDetected |-> TRUE],
      [action |-> "run_command", args |-> << <<"command", "echo \"x\"">> >>,
       result |-> "error", loopDetected |-> FALSE] }

\* String.prototype.trim on the white space of the model: blanks and line ends
RECURSIVE trimStart(_)
trimStart(s) ==
    IF Len(s) > 0 /\ SubSeq(s, 1, 1) \in {" ", "\n"} THEN trimStart(SubSeq(s, 2, Len(s))) ELSE s
RECURSIVE trimEnd(_)
trimEnd(s) ==
    IF Len(s) > 0 /\ SubSeq(s, Len(s), Len(s)) \in {" ", "\n"}
    THEN trimEnd(SubSeq(s, 1, Len(s) - 1)) ELSE s
trim(s) == trimEnd(trimStart(s))

\* the positions of the line ends of s, in order
lineEnds(s) == SelectSeq([i \in 1..Len(s) |-> i], LAMBDA i : SubSeq(s, i, i) = "\n")

\* the pieces of s between the given positions
piecesBetween(s, ends) ==
    [k \in 1..(Len(ends) + 1) |->
        SubSeq(s, (IF k = 1 THEN 0 ELSE ends[k - 1]) + 1,
                  (IF k > Len(ends) THEN Len(s) + 1 ELSE ends[k]) - 1)]

\* s.split('\n')
splitLines(s) == piecesBetween(s, lineEnds(s))

\* JSON.parse(line) inside try/catch: the entry a line was written from, null for a
\* line that is no complete JSON text
EntryTexts == { [text |-> stringifyEntry(e), result |-> e.result] : e \in AuditEntries }
parseLine(line) ==
    IF \E t \in EntryTexts : t.text = line
    THEN [null |-> FALSE, result |-> (CHOOSE t \in EntryTexts : t.text = line).result]
    ELSE [null |-> TRUE, result |-> ""]

\* AuditLogger.getLifetimeStats() on the content of the file
\* the counts getLifetimeStats() returns for the lines that are not empty
countEntries(lines) ==
    [total |-> Cardinality({ k \in 1..Len(lines) : ~parseLine(lines[k]).null }),
     blocked |-> Cardinality({ k \in 1..Len(lines) : parseLine(lines[k]).result = "blocked" }),
     errors |-> Cardinality({ k \in 1..Len(lines) : parseLine(lines[k]).result = "error" })]

\* AuditLogger.getLifetimeStats() on the content of the file
getLifetimeStats(content) ==
    countEntries(SelectSeq(splitLines(trim(content)), LAMBDA l : l # ""))

\* AuditLogger.log(entry)
AuditLog ==
    /\ logCalls < MaxLogs
    /\ \E entry \in AuditEntries :
          /\ sessionStats' = [total |-> sessionStats.total + 1,
                              blocked |-> sessionStats.blocked + (IF entry.result = "blocked" THEN 1 ELSE 0),
                              errors |-> sessionStats.errors + (IF entry.result = "error" THEN 1 ELSE 0)]
          /\ auditFile' = auditFile \o stringifyEntry(entry) \o "\n"
    /\ logCalls' = logCalls + 1
    /\ UNCHANGED <<agentVars, loopVars, ldCount, steps, gateVars, streamVars, providerVars, fallbackVars,
                   scanVars, lateVars>>

\* AuditLogger.resetSession()
AuditResetSession ==
    /\ sessionStats.total > 0
    /\ sessionStats' = [total |-> 0, blocked |-> 0, errors |-> 0]
    /\ UNCHANGED <<auditFile, logCalls>>
    /\ UNCHANGED <<agentVars, loopVars, ldCount, steps, gateVars, streamVars, providerVars, fallbackVars,
                   scanVars, lateVars>>

NextAudit == AuditLog \/ AuditResetSession

SpecAudit == Init /\ [][NextAudit]_vars

\* ------------------------------------------------- the security scanner alone
\* securityScanner.scanCommand(command)
ScanCommand ==
    /\ Len(scanLog) < MaxScans
    /\ \E command \in CommandSamples :
          scanLog' = Append(scanLog, [command |-> command, result |-> scanCommand(command)])
    /\ UNCHANGED <<agentVars, loopVars, ldCount, steps, gateVars, streamVars, providerVars, fallbackVars,
                   auditVars, lateVars>>

NextScan == ScanCommand

SpecScan == Init /\ [][NextScan]_vars

\* ------------------------------------------------- withRetry alone
\* the options withRetry is called with: the agent loop passes maxRetries alone
RetryOptions ==
    { [maxRetries |-> n, baseDelay |-> d] : n \in 1..MaxAttempts, d \in {500, 1000} }
        \cup { [maxRetries |-> n] : n \in 1..MaxAttempts }

\* const { maxRetries = 3, baseDelay = 1000 } = options
destructure(options) ==
    [maxRetries |-> IF "maxRetries" \in DOMAIN options THEN options.maxRetries ELSE 3,
     baseDelay |-> IF "baseDelay" \in DOMAIN options THEN options.baseDelay ELSE 1000]

\* how the k-th invocation of fn may settle: its value, or an error with or without
\* a status, or the AbortError of a cancelled request; `at` tells the invocations apart
Settlements(k) ==
    { [ok |-> TRUE, status |-> 0, name |-> "value", at |-> k] }
        \cup { [ok |-> FALSE, status |-> s, name |-> "Error", at |-> k] : s \in {0, 401, 403, 500} }
        \cup { [ok |-> FALSE, status |-> 0, name |-> "AbortError", at |-> k] }

\* Math.pow(2, attempt)
RECURSIVE pow2(_)
pow2(n) == IF n = 0 THEN 1 ELSE 2 * pow2(n - 1)

\* mutant: the first delay is already doubled
delayDoubled(baseDelay, k) == baseDelay * pow2(k + 1)

\* const delay = baseDelay * Math.pow(2, attempt)
delay(baseDelay, k) == baseDelay * pow2(k)

\* withRetry(fn, options) up to the first await
WithRetry ==
    /\ retryPc = "idle"
    /\ \E options \in RetryOptions :
          /\ retryOptions' = options
          /\ IF 0 < destructure(options).maxRetries
             THEN retryPc' = "invoke" /\ retryResult' = retryResult
             ELSE retryPc' = "thrown" /\ retryResult' = lastError
    /\ retryAttempt' = 0
    /\ UNCHANGED <<fnCalls, sleeps, lastError>>
    /\ UNCHANGED <<agentVars, loopVars, ldCount, steps, gateVars, streamVars, providerVars,
                   fallbackVars, auditVars, scanVars, deadlineVars>>

\* `return await fn()` settles: the value is returned, or the catch block runs up to
\* its await
RetryInvoke ==
    /\ retryPc = "invoke"
    /\ \E settled \in Settlements(Len(fnCalls) + 1) :
          /\ fnCalls' = Append(fnCalls, settled)
          /\ IF settled.ok
             THEN /\ retryPc' = "returned"
                  /\ retryResult' = settled
                  /\ UNCHANGED lastError
             ELSE /\ lastError' = settled
                  /\ IF neverRetried(settled)
                     THEN retryPc' = "thrown" /\ retryResult' = settled
                     ELSE retryPc' = "backoff" /\ retryResult' = retryResult
    /\ UNCHANGED <<retryOptions, retryAttempt, sleeps>>
    /\ UNCHANGED <<agentVars, loopVars, ldCount, steps, gateVars, streamVars, providerVars,
                   fallbackVars, auditVars, scanVars, deadlineVars>>

\* the timer of the backoff fires: attempt++, then the next invocation or, when the
\* loop is over, `throw lastError`
RetryBackoff ==
    /\ retryPc = "backoff"
    /\ sleeps' = Append(sleeps, delay(destructure(retryOptions).baseDelay, retryAttempt))
    /\ retryAttempt' = retryAttempt + 1
    /\ IF retryAttempt + 1 < destructure(retryOptions).maxRetries
       THEN retryPc' = "invoke" /\ retryResult' = retryResult
       ELSE retryPc' = "thrown" /\ retryResult' = lastError
    /\ UNCHANGED <<retryOptions, fnCalls, lastError>>
    /\ UNCHANGED <<agentVars, loopVars, ldCount, steps, gateVars, streamVars, providerVars,
                   fallbackVars, auditVars, scanVars, deadlineVars>>

NextRetry == WithRetry \/ RetryInvoke \/ RetryBackoff

SpecRetry == Init /\ [][NextRetry]_vars

\* ------------------------------------------------- a network call and its deadline
\* the error of the catch block: 'Request timed out after ...ms' for an AbortError,
\* the message of any other error
caught(errorName) == IF errorName = "AbortError" THEN "Request timed out" ELSE "network error"

\* chat() or stream() up to `await fetch(...)`: the timer of the deadline is armed
NetCall ==
    /\ netPhase = "idle"
    /\ netMode' \in {"chat", "stream"}
    /\ timeoutId' = "armed"
    /\ netPhase' = "fetch"
    /\ UNCHANGED <<expiredIn, responseOk, bodyReads, netResult>>
    /\ UNCHANGED <<agentVars, loopVars, ldCount, steps, gateVars, streamVars, providerVars,
                   fallbackVars, auditVars, scanVars, retryVars>>

\* fetch resolves with the status line and the headers: clearTimeout(timeoutId)
\* comes next, before any part of the body is read
FetchResolves ==
    /\ netPhase = "fetch"
    /\ responseOk' \in BOOLEAN
    /\ timeoutId' = "cleared"
    /\ netPhase' = "body"
    /\ UNCHANGED <<netMode, expiredIn, bodyReads, netResult>>
    /\ UNCHANGED <<agentVars, loopVars, ldCount, steps, gateVars, streamVars, providerVars,
                   fallbackVars, auditVars, scanVars, retryVars>>

\* fetch rejects for a reason of the network
FetchFails ==
    /\ netPhase = "fetch"
    /\ timeoutId' = "cleared"
    /\ netResult' = caught("TypeError")
    /\ netPhase' = "finished"
    /\ UNCHANGED <<netMode, expiredIn, responseOk, bodyReads>>
    /\ UNCHANGED <<agentVars, loopVars, ldCount, steps, gateVars, streamVars, providerVars,
                   fallbackVars, auditVars, scanVars, retryVars>>

\* stream(): reader.read() returns a part of the body
BodyRead ==
    /\ netPhase = "body"
    /\ netMode = "stream"
    /\ responseOk
    /\ bodyReads < MaxReads
    /\ bodyReads' = bodyReads + 1
    /\ UNCHANGED <<netMode, netPhase, timeoutId, expiredIn, responseOk, netResult>>
    /\ UNCHANGED <<agentVars, loopVars, ldCount, steps, gateVars, streamVars, providerVars,
                   fallbackVars, auditVars, scanVars, retryVars>>

\* the body has been read to its end: response.json() or the last read() of the
\* stream for a response that is ok, response.text() for one that is not
BodyEnds ==
    /\ netPhase = "body"
    /\ netResult' = IF responseOk THEN "response" ELSE "API error"
    /\ netPhase' = "finished"
    /\ UNCHANGED <<netMode, timeoutId, expiredIn, responseOk, bodyReads>>
    /\ UNCHANGED <<agentVars, loopVars, ldCount, steps, gateVars, streamVars, providerVars,
                   fallbackVars, auditVars, scanVars, retryVars>>

\* the connection breaks while the body is read
BodyFails ==
    /\ netPhase = "body"
    /\ netResult' = caught("TypeError")
    /\ netPhase' = "finished"
    /\ UNCHANGED <<netMode, timeoutId, expiredIn, responseOk, bodyReads>>
    /\ UNCHANGED <<agentVars, loopVars, ldCount, steps, gateVars, streamVars, providerVars,
                   fallbackVars, auditVars, scanVars, retryVars>>

\* the time of the deadline comes while the call is in progress: an armed timer
\* runs controller.abort(), the pending fetch rejects with an AbortError and the
\* catch block runs; a cleared timer runs nothing
DeadlinePasses ==
    /\ netPhase \in {"fetch", "body"}
    /\ expiredIn = "never"
    /\ expiredIn' = netPhase
    /\ IF timeoutId = "armed"
       THEN /\ timeoutId' = "fired"
            /\ netResult' = caught("AbortError")
            /\ netPhase' = "finished"
       ELSE UNCHANGED <<timeoutId, netResult, netPhase>>
    /\ UNCHANGED <<netMode, responseOk, bodyReads>>
    /\ UNCHANGED <<agentVars, loopVars, ldCount, steps, gateVars, streamVars, providerVars,
                   fallbackVars, auditVars, scanVars, retryVars>>

NextDeadline ==
    \/ NetCall
    \/ FetchResolves
    \/ FetchFails
    \/ BodyRead
    \/ BodyEnds
    \/ BodyFails
    \/ DeadlinePasses

SpecDeadline == Init /\ [][NextDeadline]_vars

\* ------------------------------------------------- properties
LoopDetectedText == "LOOP DETECTED: Try a different approach."
DeniedText == "User denied permission."
BlockedTexts == { "BLOCKED: " \o DANGEROUS_PATTERNS[i].message : i \in 1..Len(DANGEROUS_PATTERNS) }
PolicyTexts == {LoopDetectedText, DeniedText} \cup BlockedTexts

\* the call the pipeline stands at, and its parsed arguments
Current == pendingToolCalls[idx]
CurrentParsed == parseArguments(Current.arguments)

\* the positions of the tool-role messages that answer the call id
ResultsOf(id) ==
    { m \in 1..Len(messages) : messages[m].role = "tool" /\ messages[m].tool_call_id = id }

\* this step appends exactly the tool-result `content` for the current call
AppendsResult(content) == messages' = Append(messages, toolMessage(Current.id, content))

\* this step blocks the current call: it appends a policy tool-result for it
BlocksCurrent == pc \in {"call", "prompt"} /\ \E c \in PolicyTexts : AppendsResult(c)

\* C1: whenever the next provider call is due or the turn has ended, every call of
\* every assistant message of the conversation has exactly one tool-role message
\* tagged with its id
C1_OneResultPerCall ==
    pc \in {"loop", "idle"} =>
        \A k \in 1..Len(messages) : \A j \in 1..Len(messages[k].tool_calls) :
            Cardinality(ResultsOf(messages[k].tool_calls[j].id)) = 1

\* C2: every executed call of a dangerous, not safe tool ran with auto-approve on,
\* with its fingerprint already approved in the session, or after the user said yes
\* to its own prompt; and a prompt answered no executes nothing and appends the
\* denial tool-result for the call
C2_ExecutedHadApproval ==
    \A k \in 1..Len(executed) :
        (executed[k].name \in DANGEROUS_TOOLS /\ ~isSafeTool(executed[k].name)) =>
            executed[k].auto \/ executed[k].cached \/ executed[k].answer = "yes"
C2_DenialStep ==
    (pc = "prompt" /\ gate'.answer = "no") =>
        /\ executed' = executed
        /\ AppendsResult(DeniedText)
        /\ pc' # "exec"
C2_PermissionGate == []C2_ExecutedHadApproval /\ [][C2_DenialStep]_vars
C2_Witness ==
    /\ \E k \in 1..Len(executed) : executed[k].name = "write_file" /\ executed[k].answer = "yes"
                                   /\ ~executed[k].auto /\ ~executed[k].cached
    /\ \E m \in 1..Len(messages) : messages[m].content = DeniedText

\* the pipeline stands at a write_file call whose content the scanner rejects
RejectedWrite ==
    /\ pc = "call"
    /\ Current.name = "write_file"
    /\ CurrentParsed.ok
    /\ CurrentParsed.value.content # ""
    /\ ~scan(CurrentParsed.value.content).approved
TopIssueText(code) == "BLOCKED: " \o scan(code).issues[1].message
NoRejectedWriteExecuted ==
    \A k \in 1..Len(executed) :
        executed[k].name = "write_file" /\ executed[k].args.content # ""
            => scan(executed[k].args.content).approved

\* C3 as stated: a write_file call whose content the scanner rejects is never
\* executed, and the pipeline appends a BLOCKED tool-result for it
C3_RejectedWriteBlocked ==
    /\ []NoRejectedWriteExecuted
    /\ [][RejectedWrite => AppendsResult(TopIssueText(CurrentParsed.value.content))]_vars

\* C3 amended: such a call is never executed, and the pipeline appends for it the
\* BLOCKED tool-result with the top issue's message, or the LOOP DETECTED
\* tool-result when the loop detector flags the call as high-risk first
C3_RejectedWriteNeverExecuted ==
    /\ []NoRejectedWriteExecuted
    /\ [][RejectedWrite =>
            /\ executed' = executed
            /\ pc' # "exec"
            /\ IF lastCheck'.isLoop /\ lastCheck'.risk = "high"
               THEN AppendsResult(LoopDetectedText)
               ELSE AppendsResult(TopIssueText(CurrentParsed.value.content))]_vars
C3_Witness ==
    /\ pc = "call"
    /\ idx > 1
    /\ messages[Len(messages)] =
          toolMessage(pendingToolCalls[idx - 1].id, "BLOCKED: eval() can execute arbitrary code")

\* C4: no run_command call whose command matches a destructive-operation signature
\* of scanCommand is passed to executeTool
C4_DestructiveCommandNeverExecuted ==
    \A k \in 1..Len(executed) :
        executed[k].name = "run_command" => scanCommand(executed[k].args.command).approved

\* C5: every step that blocks a call (high-risk loop, scanner rejection, permission
\* denial) appends exactly one audit record, with result 'blocked', for that call
C5_BlockIsAudited ==
    [][BlocksCurrent =>
          /\ Len(auditLog') = Len(auditLog) + 1
          /\ auditLog'[Len(auditLog')].result = "blocked"
          /\ auditLog'[Len(auditLog')].action = Current.name]_vars

\* C6: after a reset or a different call, the k-th check of a run of identical
\* (action, args) is high-risk exactly when k >= 3, and the consecutive counter is
\* k - 1: zero as soon as a different call is checked
C6_HighFromThirdRepeat ==
    ldRun >= 1 =>
        /\ (lastCheck.isLoop /\ lastCheck.risk = "high") <=> ldRun >= 3
        /\ lastCheck.risk = "high" => lastCheck.isLoop
        /\ consecutiveRepeats = ldRun - 1
C6_Witness == ldRun >= 4 /\ lastCheck.risk = "high" /\ ldCount >= 5

\* no executed call has a LOOP DETECTED tool-result
NoLoopBlockedExecuted ==
    \A k \in 1..Len(executed) : \A m \in ResultsOf(executed[k].id) :
        messages[m].content # LoopDetectedText

\* C7: when the check of a call returns high risk the step appends the LOOP DETECTED
\* tool-result for that call, runs neither the scan nor the permission gate nor
\* executeTool for it, and goes on with the next call of the batch
C7_HighRiskSkipsCall ==
    /\ []NoLoopBlockedExecuted
    /\ [][(pc = "call" /\ CurrentParsed.ok /\ lastCheck'.isLoop /\ lastCheck'.risk = "high") =>
            /\ AppendsResult(LoopDetectedText)
            /\ executed' = executed
            /\ permissions' = permissions
            /\ \A t \in 1..Len(trail') : trail'[t] \notin {"scan", "permission", "prompt", "execute"}
            /\ pc' \notin {"prompt", "deps", "exec"}
            /\ idx < Len(pendingToolCalls) => (pc' = "call" /\ idx' = idx + 1)]_vars
C7_Witness ==
    /\ pc = "call"
    /\ idx > 1
    /\ messages[Len(messages)] = toolMessage(pendingToolCalls[idx - 1].id, LoopDetectedText)

\* C8: a turn makes at most maxIterations provider calls, and a turn in which every
\* response carried a tool call ends after exactly maxIterations iterations with
\* the warning printed
C8_CapReached ==
    /\ providerCalls <= maxIterations
    /\ (pc = "idle" /\ turnEnd \in {"cap", "exception"}) =>
          (iterations = maxIterations /\ providerCalls = maxIterations /\ warned)

\* C9: a call whose arguments fail to deserialize gets an error tool-result and the
\* turn is not halted
C9_ParseFailureContinues ==
    [][(pc = "call" /\ ~CurrentParsed.ok) =>
          /\ Len(messages') = Len(messages) + 1
          /\ messages'[Len(messages')].role = "tool"
          /\ messages'[Len(messages')].tool_call_id = Current.id
          /\ turnEnd' # "exception"
          /\ idx < Len(pendingToolCalls) => (pc' = "call" /\ idx' = idx + 1)]_vars

\* C10: a step that blocks a call which is not the last of its batch hands the
\* pipeline to the next call of the same batch
C10_BlockKeepsSiblings ==
    [][(BlocksCurrent /\ idx < Len(pendingToolCalls)) =>
          /\ pc' = "call"
          /\ idx' = idx + 1
          /\ pendingToolCalls' = pendingToolCalls
          /\ turnEnd' = turnEnd]_vars
C10_Witness ==
    /\ pc = "exec"
    /\ idx > 1
    /\ \E m \in ResultsOf(pendingToolCalls[idx - 1].id) : messages[m].content = DeniedText

\* the calls of the gate-only run that were prompted for the key
PromptsFor(key) == { k \in 1..Len(pgLog) : pgLog[k].key = key /\ pgLog[k].prompted }

\* C11 as stated: of two checkPermission calls with the same dangerous (name, args)
\* in one session only the first can prompt; the later one is approved without a
\* prompt
C11_PromptsAtMostOnce ==
    \A j, k \in 1..Len(pgLog) :
        (j < k /\ pgLog[j].key = pgLog[k].key /\ isDangerousTool(pgLog[k].name)
           /\ pgLog[j].prompted) =>
            /\ ~pgLog[k].prompted
            /\ pgLog[k].approved

\* C11 amended: once a prompt for a dangerous (name, args) was answered yes, every
\* later call with the same (name, args) is approved without a prompt; the session
\* cache holds exactly the keys whose prompt was answered yes, so a prompt answered
\* no caches nothing and the same call prompts again
C11_ApprovedPromptsOnce ==
    /\ \A j, k \in 1..Len(pgLog) :
          (j < k /\ pgLog[j].key = pgLog[k].key /\ isDangerousTool(pgLog[k].name)
             /\ pgLog[j].prompted /\ pgLog[j].approved) =>
              /\ ~pgLog[k].prompted
              /\ pgLog[k].approved
    /\ permissions.approvedThisSession =
          { pgLog[k].key : k \in { n \in 1..Len(pgLog) : pgLog[n].prompted /\ pgLog[n].approved } }
C11_Witness ==
    /\ ~permissions.autoApprove
    /\ \E j, k \in 1..Len(pgLog) :
          /\ j < k
          /\ pgLog[j].key = pgLog[k].key
          /\ pgLog[j].name = "write_file"
          /\ pgLog[j].prompted /\ pgLog[j].approved
          /\ ~pgLog[k].prompted /\ pgLog[k].approved
    /\ \E k \in 1..Len(pgLog) : pgLog[k].prompted /\ ~pgLog[k].approved

\* the pipeline stands at a dangerous call that passes the loop and security steps
\* of this step
DangerousCallPasses ==
    /\ pc = "call"
    /\ CurrentParsed.ok
    /\ isDangerousTool(Current.name)
    /\ ~(lastCheck'.isLoop /\ lastCheck'.risk = "high")
    /\ ~(scanApplies(Current.name, CurrentParsed.value)
          /\ ~scan(scanInput(CurrentParsed.value)).approved)

\* C12: while auto-approve is on, a dangerous call that passes the loop and security
\* steps goes to executeTool without a prompt, and its execution appends exactly one
\* audit record, with result 'success'; only /yolo changes the flag, and with the
\* flag off an uncached dangerous call is prompted again
C12_AutoApproveExecutes ==
    /\ [](\A k \in 1..Len(executed) : executed[k].auto => executed[k].answer = "none")
    /\ [][(DangerousCallPasses /\ permissions.autoApprove) =>
            /\ pc' = "exec"
            /\ messages' = messages
            /\ gate'.auto /\ gate'.answer = "none"]_vars
    /\ [][(pc = "exec" /\ gate.auto) =>
            /\ executed' = Append(executed, [id |-> Current.id, name |-> Current.name,
                                             args |-> CurrentParsed.value, auto |-> TRUE,
                                             cached |-> gate.cached, answer |-> "none"])
            /\ auditLog' = Append(auditLog, [action |-> Current.name, args |-> CurrentParsed.value,
                                             result |-> "success", loopDetected |-> FALSE])]_vars
    /\ [][permissions'.autoApprove # permissions.autoApprove => (pc = "idle" /\ pc' = "idle")]_vars
    /\ [][(DangerousCallPasses /\ ~permissions.autoApprove
             /\ actionKey(Current.name, CurrentParsed.value) \notin permissions.approvedThisSession)
            => pc' = "prompt"]_vars
C12_Witness ==
    /\ permissions.autoApprove
    /\ Len(executed) > 0
    /\ LET e == executed[Len(executed)]
       IN /\ e.name = "run_command"
          /\ e.auto /\ ~e.cached /\ e.answer = "none"
          /\ auditLog[Len(auditLog)].action = "run_command"
          /\ auditLog[Len(auditLog)].result = "success"

\* the ids carried by the deltas read so far
StreamIds == { deltas[p].id : p \in { q \in 1..Len(deltas) : deltas[q].tool /\ deltas[q].id # "" } }

\* the id of the call a tool_calls delta belongs to: its own id, or the id of the
\* call that is open when it arrives ('' when none is open)
RECURSIVE OwnerOf(_)
OwnerOf(p) ==
    IF p = 0 THEN ""
    ELSE IF deltas[p].tool /\ deltas[p].id # "" THEN deltas[p].id
    ELSE OwnerOf(p - 1)

\* the name and argument fragments of an id, joined in arrival order
RECURSIVE JoinedName(_, _)
JoinedName(id, p) ==
    IF p > Len(deltas) THEN ""
    ELSE (IF deltas[p].tool /\ OwnerOf(p) = id THEN deltas[p].name ELSE "") \o JoinedName(id, p + 1)
RECURSIVE JoinedArguments(_, _)
JoinedArguments(id, p) ==
    IF p > Len(deltas) THEN ""
    ELSE (IF deltas[p].tool /\ OwnerOf(p) = id THEN deltas[p].arguments ELSE "")
         \o JoinedArguments(id, p + 1)

\* the positions of the tool_call chunks yielded for an id
ChunksOf(id) ==
    { c \in 1..Len(chunks) : chunks[c].type = "tool_call" /\ chunks[c].toolCall.id = id }

\* C13: when the stream has ended with [DONE], exactly one tool_call chunk was
\* yielded per id, and it carries the joined name and argument fragments of that id
C13_OneChunkPerId ==
    streamEnd = "sentinel" =>
        \A id \in StreamIds :
            /\ Cardinality(ChunksOf(id)) = 1
            /\ \A c \in ChunksOf(id) :
                  /\ chunks[c].toolCall.name = JoinedName(id, 1)
                  /\ chunks[c].toolCall.arguments = JoinedArguments(id, 1)

\* C14: when the body has ended without [DONE], every call opened in the stream was
\* yielded as a tool_call chunk before the final done chunk
C14_OpenCallEmittedAtEnd ==
    streamEnd = "eof" =>
        /\ chunks[Len(chunks)].type = "done"
        /\ \A id \in StreamIds : ChunksOf(id) # {}

\* the request was rejected because the model does not support tools
RejectedForTools(k) ==
    requests[k].useTools /\ requests[k].response \in {ToolsUnsupported, FunctionsUnsupported}

\* C15: for every adapter and both modes, a request rejected because the model does
\* not support tools is followed by the same request without tools, and the agent
\* loop never receives an error for the rejection
C15_ToolRejectionRetried ==
    \A k \in 1..Len(requests) :
        RejectedForTools(k) =>
            /\ k = Len(requests) => outcome = "none"
            /\ k < Len(requests) => ~requests[k + 1].useTools

\* the response is an authentication error
AuthFailure(k) == requests[k].response.status \in {401, 403}

\* C16: in non-streaming mode a request that fails with 401 or 403 is the last
\* request of the provider call: the wrapper does not invoke chat() again and the
\* agent loop receives the failure
C16_AuthFailureNotRetried ==
    mode = "chat" =>
        \A k \in 1..Len(requests) :
            AuthFailure(k) => (k = Len(requests) /\ outcome = "error")

\* this step runs executeTool for the current call and the handler throws
HandlerThrows ==
    /\ pc = "exec"
    /\ Len(executed') = Len(executed) + 1
    /\ AppendsResult(executeTool(Current.name, TRUE))

\* C17: when the handler of a call throws, the step appends the 'Error executing'
\* string as the call's tool-result, appends one audit record with result 'error'
\* for the call, and goes on with the next call
C17_HandlerErrorLogged ==
    [][HandlerThrows =>
          /\ Len(auditLog') = Len(auditLog) + 1
          /\ auditLog'[Len(auditLog')].action = Current.name
          /\ auditLog'[Len(auditLog')].result = "error"
          /\ turnEnd' # "exception"
          /\ idx < Len(pendingToolCalls) => (pc' = "call" /\ idx' = idx + 1)]_vars

\* this step is a provider call that fails: an error chunk, or an exception
ProviderFails == pc = "loop" /\ turnEnd' \in {"error", "provider_exception"}

\* C18: a provider call that fails leaves the conversation as it was before the
\* call, executes no tool call of the partial response and ends the turn: no batch
\* is pending and no further provider call is due
C18_FailureKeepsConversation ==
    [][ProviderFails =>
          /\ messages' = messages
          /\ executed' = executed
          /\ auditLog' = auditLog
          /\ pc' = "idle"
          /\ pendingToolCalls' = <<>>
          /\ providerCalls' = providerCalls + 1]_vars
C18_Witness ==
    /\ pc = "idle"
    /\ turnEnd = "error"
    /\ providerCalls = 2
    /\ Len(executed) > 0
    /\ messages[Len(messages)].role = "tool"

\* C19: when the response carries at least one structured call, the batch after the
\* three fallback stages is exactly the structured calls, whatever the text holds
C19_StructuredCallsOnly ==
    (fbPc = "parsed" /\ Len(structured) > 0) => fbBatch = structured
C19_Witness ==
    /\ fbPc = "parsed"
    /\ Len(structured) > 0
    /\ fullContent = TextCallJson
    /\ fbBatch = structured

\* the (name, arguments) the JSON stage recovers from a text of the model
ExpectedJson(text) ==
    CASE text = PayFlatWrite -> <<"write_file", PayFlatWrite>>
      [] text = TextJsonArgs -> <<"write_file", PayWriteHi>>
      [] OTHER -> <<"read_file", PayReadX>>

\* C20: with no structured call and no textual call, the text holding the flat
\* object {"action":"write_file","path":"a.txt","content":"hi"} gives exactly one
\* call, named write_file, whose deserialized arguments have path a.txt and content
\* hi; an object naming its tool under tool or name gives the serialized args or
\* params field as arguments, a flat object gives itself
C20_JsonFallbackRecovers ==
    (fbPc = "parsed" /\ Len(structured) = 0) =>
        /\ fullContent = PayFlatWrite =>
              /\ Len(fbBatch) = 1
              /\ fbBatch[1].name = "write_file"
              /\ parseArguments(fbBatch[1].arguments).ok
              /\ parseArguments(fbBatch[1].arguments).value.path = "a.txt"
              /\ parseArguments(fbBatch[1].arguments).value.content = "hi"
        /\ fullContent \in {PayFlatWrite, TextJsonArgs, TextJsonParams} =>
              /\ Len(fbBatch) = 1
              /\ <<fbBatch[1].name, fbBatch[1].arguments>> = ExpectedJson(fullContent)
C20_Witness ==
    /\ fbPc = "parsed"
    /\ fullContent = PayFlatWrite
    /\ Len(fbBatch) = 1
    /\ fbBatch[1].name = "write_file"
    /\ parseArguments(fbBatch[1].arguments).value.content = "hi"

\* this step executes the current call, whose name carries the namespace separator
ExecutesMcpCall ==
    /\ pc = "exec"
    /\ isMCPTool(Current.name)
    /\ Len(executed') = Len(executed) + 1

\* C21: a call whose name contains '__' is run by MCPClient.callTool on the server
\* named before the first separator, and the text callTool returns is appended as
\* the call's tool-result
C21_McpCallRouted ==
    [][ExecutesMcpCall =>
          /\ callTool(Current.name, CurrentParsed.value).serverName \in connections
          /\ AppendsResult(callTool(Current.name, CurrentParsed.value).output)]_vars

\* the lines of the file, counted on its bytes: one per line end
countLines(content) == Cardinality({ i \in 1..Len(content) : SubSeq(content, i, i) = "\n" })

\* getLifetimeStats().total is the number of lines of the file
LifetimeTotalIsLines ==
    /\ getLifetimeStats(auditFile).total = countLines(auditFile)
    /\ countLines(auditFile) = logCalls

\* a log() call appends one line; no step changes what the file held before
AppendOnly ==
    /\ SubSeq(auditFile', 1, Len(auditFile)) = auditFile
    /\ logCalls' = logCalls + 1 =>
          /\ Len(auditFile') > Len(auditFile)
          /\ countLines(auditFile') = countLines(auditFile) + 1
          /\ SubSeq(auditFile', Len(auditFile'), Len(auditFile')) = "\n"

CheckStep == ldCount' = ldCount + 1

\* the history after a check: the earlier entries in their order, without the
\* oldest one when the buffer was full, followed by the entry of the call checked
EvictsOldest ==
    CheckStep =>
        LET kept == IF Len(history) >= maxHistory THEN Tail(history) ELSE history
        IN /\ Len(history') = Len(kept) + 1
           /\ SubSeq(history', 1, Len(kept)) = kept
           /\ history'[Len(history')].action = ldLast'[1]
           /\ history'[Len(history')].hash = hashStep(ldLast'[1], ldLast'[2])

\* C23: under any sequence of check() and reset() the history holds at most
\* maxHistory entries, and a check on a full history evicts the oldest entry
C23_HistoryBounded == [](Len(history) <= maxHistory) /\ [][EvictsOldest]_vars

\* the buffer is full after more than maxHistory checks and its oldest entry is
\* no longer the first call of the session
C23_Witness ==
    /\ ldCount > maxHistory + 1
    /\ Len(history) = maxHistory
    /\ history[1].hash # hashStep(distinctCall(1)[1], distinctCall(1)[2])
    /\ history[1].hash # hashStep(distinctCall(2)[1], distinctCall(2)[2])

\* the signatures of the table that match the command
SignaturesMatching(command) == { i \in 1..Len(dangerousCommands) : <<i, command>> \in CommandMatches }

ConfirmsPrompt == pc = "prompt" /\ gate'.answer = "yes"

\* the approved fingerprints are kept by every step; the step that adds one is the
\* confirmation of a prompt, which adds the fingerprint of the call prompted for
ApprovalsOnlyGrow ==
    /\ permissions.approvedThisSession \subseteq permissions'.approvedThisSession
    /\ ConfirmsPrompt =>
          permissions'.approvedThisSession =
              permissions.approvedThisSession \cup {actionKey(Current.name, CurrentParsed.value)}
    /\ ~ConfirmsPrompt => permissions'.approvedThisSession = permissions.approvedThisSession

\* C25: within a session the approved-fingerprint set only grows: a fingerprint is
\* added exactly when the user confirms a prompt, and neither a denial, nor
\* toggleAutoApprove, nor /clear, nor the end of a turn changes the set
C25_ApprovalsOnlyGrow == [][ApprovalsOnlyGrow]_vars

\* an approval granted earlier is still held after the turn has ended, auto-approve
\* was toggled and the conversation was cleared
C25_Witness ==
    /\ pc = "idle"
    /\ permissions.approvedThisSession # {}
    /\ permissions.autoApprove
    /\ messages = <<systemMessage>>
    /\ Len(executed) > 0

\* the order of the steps of one call
StepOrder == <<"parse", "loop", "scan", "permission", "prompt", "deps", "execute", "audit", "result">>
Rank(step) == CHOOSE i \in 1..Len(StepOrder) : StepOrder[i] = step
Took(step) == \E i \in 1..Len(trail) : trail[i] = step

\* the steps taken for the current call follow the order, the loop check first
TrailInOrder ==
    /\ \A i, j \in 1..Len(trail) : i < j => Rank(trail[i]) < Rank(trail[j])
    /\ Len(trail) >= 2 => (trail[1] = "parse" /\ trail[2] = "loop")
    /\ Took("execute") => (Took("permission") /\ Took("audit") /\ Took("result"))
    /\ Took("prompt") => Took("permission")

\* the scanner rejected the current call
SecurityRejected ==
    /\ scanApplies(Current.name, CurrentParsed.value)
    /\ ~scan(scanInput(CurrentParsed.value)).approved

\* a call at the prompt, at the dependency check or at execution was neither
\* loop-blocked nor security-rejected
PastTheChecks ==
    pc \in {"prompt", "deps", "exec"} =>
        /\ ~(lastCheck.isLoop /\ lastCheck.risk = "high")
        /\ ~SecurityRejected

\* a call at execution has the approval of checkPermission
ApprovedBeforeExecution ==
    pc = "exec" =>
        /\ Took("permission")
        /\ \/ isSafeTool(Current.name)
           \/ gate.auto
           \/ gate.cached
           \/ ~isDangerousTool(Current.name)
           \/ gate.answer = "yes"

\* a rejection runs no later supervision step and no tool
RejectionSkipsTheRest ==
    /\ Len(executed') > Len(executed) => (pc = "exec" /\ executed'[Len(executed')].id = Current.id)
    /\ (pc = "call" /\ CurrentParsed.ok
          /\ (loopBlocked(check(history, consecutiveRepeats, Current.name, CurrentParsed.value))
              \/ SecurityRejected)) =>
          /\ pc' \notin {"prompt", "deps", "exec"}
          /\ executed' = executed
          /\ ~\E i \in 1..Len(trail') : trail'[i] \in {"permission", "prompt", "execute"}

\* C26: the steps of a call run in the order loop detector, security scanner,
\* permission gate, execution, audit record, tool-result; a loop-blocked or
\* security-rejected call is never prompted for, and no tool runs before its
\* permission check returned approved
C26_PipelineOrder ==
    [](TrailInOrder /\ PastTheChecks /\ ApprovedBeforeExecution) /\ [][RejectionSkipsTheRest]_vars

\* a write_file call went through every step, its prompt included, after an
\* earlier call of the session was stopped by the scanner
C26_Witness ==
    /\ trail = <<"parse", "loop", "scan", "permission", "prompt", "execute", "audit", "result">>
    /\ \E m \in 1..Len(messages) : messages[m].content \in BlockedTexts

\* the assistant messages that carry tool calls
Batches == { k \in 1..Len(messages) : messages[k].role = "assistant" /\ messages[k].tool_calls # <<>> }

\* the latest of them before message m, 0 when there is none
BatchBefore(m) ==
    IF \E k \in Batches : k < m
    THEN CHOOSE k \in Batches : k < m /\ \A l \in Batches : l < m => l <= k
    ELSE 0

\* the place of the call with the given id in the batch of message k, 0 when absent
PlaceIn(k, id) ==
    IF \E j \in 1..Len(messages[k].tool_calls) : messages[k].tool_calls[j].id = id
    THEN CHOOSE j \in 1..Len(messages[k].tool_calls) : messages[k].tool_calls[j].id = id
    ELSE 0

\* every tool-role message answers a call of the most recent assistant message
\* that carries tool calls, and the answers of a batch come in the order of its calls
ResultsFollowTheirBatch ==
    \A m \in 1..Len(messages) :
        messages[m].role = "tool" =>
            /\ BatchBefore(m) > 0
            /\ PlaceIn(BatchBefore(m), messages[m].tool_call_id) > 0
            /\ \A n \in 1..(m - 1) :
                  (messages[n].role = "tool" /\ BatchBefore(n) = BatchBefore(m)) =>
                      PlaceIn(BatchBefore(m), messages[n].tool_call_id)
                          < PlaceIn(BatchBefore(m), messages[m].tool_call_id)

\* while a call of the batch is in the pipeline, the batch is the latest assistant
\* message, every earlier call of the batch has its tool-result and no later call,
\* the current one included, has one
OneCallAtATime ==
    pc \in {"call", "prompt", "deps", "exec"} =>
        /\ Batches # {}
        /\ messages[BatchBefore(Len(messages) + 1)].tool_calls = pendingToolCalls
        /\ \A j \in 1..Len(pendingToolCalls) :
              Cardinality(ResultsOf(pendingToolCalls[j].id)) = (IF j < idx THEN 1 ELSE 0)

\* C27: the calls of a batch are processed one at a time in the order of the
\* assistant message, which is appended before the first of them starts; the
\* tool-result of a call is appended before the next call starts, and every
\* tool-role message is tagged with the id of a call of the most recent assistant
\* message that carries tool calls
C27_SequentialBatch == ResultsFollowTheirBatch /\ OneCallAtATime

\* the second call of a batch is about to run and the first has its tool-result
C27_Witness ==
    /\ pc = "exec"
    /\ Len(pendingToolCalls) = 2
    /\ idx = 2
    /\ messages[Len(messages)].role = "tool"
    /\ messages[Len(messages)].tool_call_id = pendingToolCalls[1].id
    /\ Cardinality(Batches) = 2

\* the stage a fallback call comes from, read from its id
StageOf(call) ==
    CASE SubSeq(call.id, 1, 14) = "fallback_text_" -> "text"
      [] SubSeq(call.id, 1, 14) = "fallback_json_" -> "json"
      [] SubSeq(call.id, 1, 13) = "fallback_xml_" -> "xml"
      [] OTHER -> "structured"

\* the stage finds a known tool name in the text
Recognizes(stage, content) ==
    CASE stage = "text" ->
            /\ includes(content, "(")
            /\ \E i \in 1..Len(textCallMatches(content)) :
                  toolExists(canonicalName(textCallMatches(content)[i].name))
      [] stage = "json" ->
            \E i \in 1..Len(jsonBlocks(content)) :
                toolExists(canonicalBlockName(jsonToolName(parseObject(rawJson(jsonBlocks(content)[i])))))
      [] stage = "xml" ->
            \E i \in 1..Len(xmlMatches(content)) :
                toolExists(canonicalBlockName(xmlMatches(content)[i].name))

\* the calls a stage makes of the text when it is run on an empty batch
YieldOf(stage, content) ==
    CASE stage = "text" -> IF includes(content, "(")
                           THEN textCalls(textCallMatches(content), 1, <<>>) ELSE <<>>
      [] stage = "json" -> IF includes(content, "{")
                           THEN jsonCalls(jsonBlocks(content), 1, <<>>) ELSE <<>>
      [] stage = "xml" -> IF includes(content, "<")
                          THEN xmlCalls(xmlMatches(content), 1, <<>>) ELSE <<>>

Stages == <<"text", "json", "xml">>

\* the calls of the batch come from one stage
OneStagePerBatch == \A i, j \in 1..Len(fbBatch) : StageOf(fbBatch[i]) = StageOf(fbBatch[j])

\* C28 as stated: without structured calls, the batch comes from the first stage,
\* in the order text, JSON, XML, that recognizes a known tool name, and from no
\* other stage
C28_StopsAtFirstRecognition ==
    (fbPc = "parsed" /\ Len(structured) = 0) =>
        /\ OneStagePerBatch
        /\ \A s \in 1..3 :
              (Recognizes(Stages[s], fullContent)
                 /\ \A t \in 1..(s - 1) : ~Recognizes(Stages[t], fullContent)) =>
                  \A i \in 1..Len(fbBatch) : StageOf(fbBatch[i]) = Stages[s]

\* C28, amended: without structured calls, the batch is what the first stage that
\* yields at least one call makes of the text, and it is empty when no stage
\* yields one; its calls never come from two stages
C28_StopsAtFirstYield ==
    (fbPc = "parsed" /\ Len(structured) = 0) =>
        /\ OneStagePerBatch
        /\ \A s \in 1..3 :
              (YieldOf(Stages[s], fullContent) # <<>>
                 /\ \A t \in 1..(s - 1) : YieldOf(Stages[t], fullContent) = <<>>) =>
                  fbBatch = YieldOf(Stages[s], fullContent)
        /\ (\A s \in 1..3 : YieldOf(Stages[s], fullContent) = <<>>) => fbBatch = <<>>

\* the text stage yields a call and the JSON stage would yield another: the batch
\* holds the call of the text stage alone
C28_Witness ==
    /\ fbPc = "parsed"
    /\ Len(structured) = 0
    /\ fullContent = TextCallJson
    /\ YieldOf("json", fullContent) # <<>>
    /\ Len(fbBatch) = 1
    /\ StageOf(fbBatch[1]) = "text"

\* this step is the pipeline of a call whose loop check returns medium risk
MediumRiskStep ==
    /\ pc = "call"
    /\ CurrentParsed.ok
    /\ lastCheck'.isLoop
    /\ lastCheck'.risk = "medium"

\* what the pipeline step does with a call that was not flagged
UnflaggedOutcome ==
    IF SecurityRejected
    THEN /\ AppendsResult(TopIssueText(scanInput(CurrentParsed.value)))
         /\ trail' = <<"parse", "loop", "scan", "result">>
    ELSE /\ messages' = messages
         /\ Took("permission")'
         /\ scanApplies(Current.name, CurrentParsed.value) <=> Took("scan")'
         /\ pc' = (IF ~approvedWithoutPrompt(Current.name, CurrentParsed.value, permissions)
                   THEN "prompt"
                   ELSE IF needsPlaywright(Current.name) THEN "deps" ELSE "exec")

\* C29: a call flagged isLoop with risk 'medium' is not skipped: its pipeline step
\* goes on to the scan, the permission gate and execution as for a call that was
\* not flagged, appends no LOOP DETECTED result and logs no 'blocked' record
C29_MediumRiskContinues ==
    [][MediumRiskStep =>
          /\ auditLog' = auditLog
          /\ ~AppendsResult(LoopDetectedText)
          /\ UnflaggedOutcome]_vars

\* a call flagged with medium risk has been executed and logged as a success
C29_Witness ==
    /\ lastCheck = [isLoop |-> TRUE, risk |-> "medium"]
    /\ Took("execute")
    /\ Len(executed) > 0
    /\ auditLog[Len(auditLog)].result = "success"
    /\ \A k \in 1..Len(auditLog) : auditLog[k].result # "blocked"

\* the action names of the retained history, oldest first; the last one is the
\* call just checked
Names == [k \in 1..Len(history) |-> history[k].action]

\* at least five retained entries carry the name of the call just checked
FiveOfTheSame ==
    Cardinality({ k \in 1..Len(Names) : Names[k] = Names[Len(Names)] }) >= 5

\* the last four recorded names are A, B, A, B with A different from B
Alternation ==
    /\ Len(Names) >= 4
    /\ Names[Len(Names) - 3] = Names[Len(Names) - 1]
    /\ Names[Len(Names) - 2] = Names[Len(Names)]
    /\ Names[Len(Names) - 1] # Names[Len(Names)]

\* the latest step was a check, and it was the third or later of a run of
\* identical calls
AfterCheck == ldLast # <<>> /\ history # <<>>
ThirdOfARun == ldRun >= 3

\* C30: a check that is not high-risk returns isLoop with risk 'medium' exactly when
\* the retained history, the current call included, holds at least five entries
\* with the current action name or its last four names alternate A,B,A,B; in every
\* other case it returns isLoop=false with risk 'low'
C30_MediumRiskRule ==
    (AfterCheck /\ ~ThirdOfARun) =>
        IF FiveOfTheSame \/ Alternation
        THEN lastCheck = [isLoop |-> TRUE, risk |-> "medium"]
        ELSE lastCheck = [isLoop |-> FALSE, risk |-> "low"]

\* the fifth check with one action name, under changing arguments, is flagged
\* medium without any alternation
C30_Witness ==
    /\ ldCount = 5
    /\ lastCheck = [isLoop |-> TRUE, risk |-> "medium"]
    /\ FiveOfTheSame
    /\ ~Alternation

\* a step of the /clear handler: the only step that starts and ends between two
\* turns and leaves the permissions alone
ClearStep == pc = "idle" /\ pc' = "idle" /\ permissions' = permissions /\ steps' # steps

\* the detector as reset() leaves it
DetectorEmpty == history = <<>> /\ consecutiveRepeats = 0

\* C31: reset() empties the history and zeroes the consecutive counter, /clear calls
\* it while it replaces the conversation by the system prompt alone, and neither of
\* the first two checks after it is flagged as a loop, whatever was checked before
C31_ClearResetsDetector ==
    /\ [](sinceReset = 0 => DetectorEmpty)
    /\ [](sinceReset \in 1..2 => lastCheck = NoCheck)
    /\ [][ClearStep => /\ messages' = <<systemMessage>>
                       /\ DetectorEmpty'
                       /\ sinceReset' = 0]_vars

\* two calls were issued before a /clear, and the same call was checked twice after
\* it without being flagged
C31_Witness ==
    /\ issued = 4
    /\ Len(messages) <= 5
    /\ messages[1] = systemMessage
    /\ sinceReset = 2
    /\ ldRun = 2
    /\ Len(history) = 2
    /\ lastCheck = NoCheck

\* withRetry was called with both options given
ExplicitOptions ==
    /\ retryPc # "idle"
    /\ DOMAIN retryOptions = {"maxRetries", "baseDelay"}

\* every invocation of fn but the latest one failed
OnlyTheLatestMaySucceed == \A k \in 1..(Len(fnCalls) - 1) : ~fnCalls[k].ok

\* the k-th timer awaited runs for baseDelay * 2^(k-1), and an invocation is made
\* only after the timer of every failure before it
BackoffDoubles ==
    /\ \A k \in 1..Len(sleeps) :
          sleeps[k] = CASE k = 1 -> retryOptions.baseDelay
                        [] k = 2 -> retryOptions.baseDelay * 2
                        [] k = 3 -> retryOptions.baseDelay * 4
                        [] OTHER -> sleeps[k - 1] * 2
    /\ Len(sleeps) \in {Len(fnCalls) - 1, Len(fnCalls)}
    /\ retryPc = "invoke" => Len(sleeps) = Len(fnCalls)

\* C32: withRetry(fn, {maxRetries: N, baseDelay: d}) with N >= 1 invokes fn at most N
\* times, returns the first successful result without another invocation, waits
\* d * 2^k after the failure of attempt k before the next attempt, and after N failed
\* attempts throws the error of the last attempt
C32_RetryWithBackoff ==
    /\ [](ExplicitOptions =>
            /\ Len(fnCalls) <= retryOptions.maxRetries
            /\ OnlyTheLatestMaySucceed
            /\ BackoffDoubles
            /\ retryPc = "returned" <=> (fnCalls # <<>> /\ fnCalls[Len(fnCalls)].ok)
            /\ retryPc = "returned" => retryResult = fnCalls[Len(fnCalls)]
            /\ (Len(fnCalls) = retryOptions.maxRetries /\ ~fnCalls[Len(fnCalls)].ok) =>
                    /\ retryPc \in {"backoff", "thrown"}
                    /\ retryPc = "thrown" => retryResult = fnCalls[Len(fnCalls)])
    /\ [][(retryPc \in {"returned", "thrown"}) => (retryPc' = retryPc /\ fnCalls' = fnCalls)]_vars

\* three attempts with a base delay of 500 failed, and the error of the third was
\* thrown after timers of 500, 1000 and 2000
C32_Witness ==
    /\ ExplicitOptions
    /\ retryOptions = [maxRetries |-> 3, baseDelay |-> 500]
    /\ Len(fnCalls) = 3
    /\ sleeps = <<500, 1000, 2000>>
    /\ retryPc = "thrown"
    /\ retryResult = fnCalls[3]
    /\ retryResult.status = 500

\* C33: a provider call is bounded by its deadline for its whole duration, the
\* reading of a streamed body included: once the deadline has passed before the
\* response was received completely the call has ended with 'Request timed out',
\* and no call ends with that error for another reason
C33_DeadlineCoversTheBody ==
    /\ expiredIn # "never" => (netPhase = "finished" /\ netResult = "Request timed out")
    /\ netResult = "Request timed out" => expiredIn # "never"

\* what holds in the code: the deadline bounds the wait for the status line and the
\* headers, and only an expired deadline yields 'Request timed out'
DeadlineCoversTheFetch ==
    /\ expiredIn = "fetch" => (netPhase = "finished" /\ netResult = "Request timed out")
    /\ netResult = "Request timed out" => expiredIn = "fetch"

\* the deadline passed while a streamed body was read, and the stream ended as if
\* there were no deadline
C33_Escape ==
    /\ netMode = "stream"
    /\ expiredIn = "body"
    /\ bodyReads > 0
    /\ netPhase = "finished"
    /\ netResult = "response"

\* the positions of the tool_call chunks yielded so far
ToolCallChunks == { c \in 1..Len(chunks) : chunks[c].type = "tool_call" }

\* C34: when QwenFreeProvider.stream has ended, it has yielded as many tool_call
\* chunks as the response opened calls, and every one of them carries the joined
\* argument fragments of its call
C34_QwenReconstructsCalls ==
    (adapter = "qwen-free" /\ streamEnd = "eof") =>
        /\ Cardinality(ToolCallChunks) = Cardinality(StreamIds)
        /\ \A c \in ToolCallChunks :
              chunks[c].toolCall.arguments = JoinedArguments(chunks[c].toolCall.id, 1)

\* one read_file call sent in three fragments has become three tool_call chunks,
\* two of them under made-up ids and none with the whole argument string
C34_Fragments ==
    /\ adapter = "qwen-free"
    /\ streamEnd = "eof"
    /\ deltas = << toolDelta("1", "read_fi", ""), toolDelta("", "le", ""),
                   toolDelta("", "", "{\"path\":") >>
    /\ Cardinality(ToolCallChunks) = 3
    /\ StreamIds = {"1"}

\* the executeTool invocations of edit_file whose replace payload the scanner rejects
RejectedEditsExecuted ==
    { k \in 1..Len(executed) :
        /\ executed[k].name = "edit_file"
        /\ ~scan(executed[k].args.replace).approved }

\* C35: an edit_file call whose replace payload makes scan() return approved=false is
\* never executed, whatever other arguments it carries
C35_RejectedReplaceNotExecuted == RejectedEditsExecuted = {}

\* what holds in the code: no edit_file call is executed when the text handed to the
\* scanner, its content or else its replace payload, is rejected
ScannedTextNotExecuted ==
    \A k \in 1..Len(executed) :
        executed[k].name = "edit_file" => scan(scanInput(executed[k].args)).approved

\* the call that carries a harmless content next to the rejected replace payload
\* was executed after the user's approval
C35_Escape ==
    /\ Len(executed) = 1
    /\ executed[1].name = "edit_file"
    /\ executed[1].args.content = "hi"
    /\ executed[1].args.replace = "eval(userInput)"
    /\ executed[1].answer = "yes"

\* C36: the 'Max iterations reached' warning is printed only when the cap was hit
\* with tool calls still pending: a turn that ended with a final text answer or with
\* a provider error has not printed it, on whatever iteration it ended
C36_WarningOnlyWithPendingCalls ==
    (pc = "idle" /\ turnEnd \in {"final", "error", "provider_exception"}) => ~warned

\* what holds in the code: the warning is printed exactly when the loop was left, by
\* its condition or by a break, with the iteration counter at the cap
WarningFollowsTheCounter ==
    (pc = "idle" /\ turnEnd \notin {"none", "error"}) => (warned <=> iterations >= maxIterations)

\* the turn got its final answer on the last allowed iteration, after a first
\* iteration of tool calls, and the warning was printed
C36_Escape ==
    /\ pc = "idle"
    /\ turnEnd = "final"
    /\ iterations = maxIterations
    /\ messages[Len(messages)] = assistantMessage("Done.", <<>>)
    /\ Len(executed) > 0
    /\ warned

\* a prompt for the key was answered yes in one of the calls logged so far
AnsweredYes(key) ==
    \E i \in 1..Len(pgLog) : pgLog[i].key = key /\ pgLog[i].prompted /\ pgLog[i].approved

\* the j-th call was dangerous and was approved without a prompt and without an
\* earlier yes for its key: it ran under auto-approve
UnderAutoApprove(j) ==
    /\ isDangerousTool(pgLog[j].name)
    /\ ~pgLog[j].prompted
    /\ \A i \in 1..(j - 1) : ~(pgLog[i].key = pgLog[j].key /\ pgLog[i].prompted /\ pgLog[i].approved)

\* a checkPermission call returns in this step
GateReturns == Len(pgLog') = Len(pgLog) + 1

TurnStarts == pc = "idle" /\ pc' = "loop"

\* the positions of the user messages of the conversation: one per turn
UserTurns == { m \in 1..Len(messages) : messages[m].role = "user" }

\* the current call repeats the two checks before it, made since the session
\* started or was cleared
ThirdIdenticalCall ==
    /\ pc = "call"
    /\ CurrentParsed.ok
    /\ ldRun >= 2
    /\ ldLast = <<Current.name, CurrentParsed.value>>

\* C38: the start of a turn leaves the detector's history and counter as they are,
\* only /clear empties them after the session has started, and the third
\* consecutive identical call is blocked as high-risk in whatever turns the three
\* calls were issued
C38_DetectorSpansTurns ==
    /\ [][TurnStarts => (history' = history /\ consecutiveRepeats' = consecutiveRepeats)]_vars
    /\ [][(history # <<>> /\ history' = <<>>) => ClearStep]_vars
    /\ [][ThirdIdenticalCall =>
            /\ lastCheck' = [isLoop |-> TRUE, risk |-> "high"]
            /\ AppendsResult(LoopDetectedText)
            /\ executed' = executed]_vars

\* three turns issued read_file x.txt once each: the first two calls were executed
\* and answered, the third was blocked as a loop
C38_Witness ==
    /\ UserTurns = {2, 6, 10}
    /\ Len(messages) = 12
    /\ issued = 3
    /\ Len(executed) = 2
    /\ lastCheck = [isLoop |-> TRUE, risk |-> "high"]
    /\ messages[12] = toolMessage(3, LoopDetectedText)

\* a request is made in this step
RequestMade == Len(requests') = Len(requests) + 1

\* C39: a chat() or stream() call of OpenAIProvider makes at most two requests; the
\* second is made exactly when the first was rejected for its tools, and carries
\* none; a failure of the second ends the call with an error; and stream() has
\* yielded nothing when the second request is made
C39_OneRetryWithoutTools ==
    /\ [](provider = "openai" =>
            /\ Len(requests) <= 2
            /\ Len(requests) = 2 => (RejectedForTools(1) /\ ~requests[2].useTools)
            /\ (Len(requests) = 1 /\ RejectedForTools(1)) => outcome = "none"
            /\ (Len(requests) = 2 /\ requests[2].response.status # 200) => outcome = "error")
    /\ [][(RequestMade /\ requests # <<>>) => chunks = <<>>]_vars
    /\ [][outcome # "none" => UNCHANGED <<requests, chunks, outcome>>]_vars

\* stream(): the first request was rejected for its tools, the retry without tools
\* was answered, and every chunk yielded is a chunk of the retry
C39_Witness ==
    /\ provider = "openai"
    /\ mode = "stream"
    /\ Len(requests) = 2
    /\ RejectedForTools(1)
    /\ requests[2] = [useTools |-> FALSE, response |-> Ok]
    /\ chunks = <<textChunk("ok"), doneChunk>>
    /\ outcome = "response"

====
